---------------------------- MODULE Spec2Model ----------------------------
(***************************************************************************)
(* Model of the evaluation-support pipeline of Avaliador de MITs:          *)
(*   - CacheManager (cache/manager.py): content-addressed extraction cache *)
(*   - MIT041Evaluator (evaluators/mit041.py): judge call and reply parser *)
(*   - avaliar (cli.py): the request flow that ties them together          *)
(*                                                                         *)
(* Text is modelled as a sequence of atoms (strings): a Python str is a    *)
(* Seq of atoms, whitespace being the atoms " " and "\n".  Scores are      *)
(* integers: a reply's score in hundredths, a result's score in tenths.    *)
(***************************************************************************)
EXTENDS Integers, Sequences, FiniteSets, TLC

(***************************************************************************)
(* Python str helpers                                                      *)
(***************************************************************************)
WhiteSpace == {" ", "\n"}

RECURSIVE LStrip(_)
LStrip(s) ==
    IF s # <<>> /\ Head(s) \in WhiteSpace THEN LStrip(Tail(s)) ELSE s

RECURSIVE RStrip(_)
RStrip(s) ==
    IF s # <<>> /\ s[Len(s)] \in WhiteSpace
    THEN RStrip(SubSeq(s, 1, Len(s) - 1))
    ELSE s

\* str.strip()
Strip(s) == RStrip(LStrip(s))

\* str.startswith(prefix)
StartsWith(s, prefix) ==
    /\ Len(s) >= Len(prefix)
    /\ SubSeq(s, 1, Len(prefix)) = prefix

\* str.endswith(suffix)
EndsWith(s, suffix) ==
    /\ Len(s) >= Len(suffix)
    /\ SubSeq(s, Len(s) - Len(suffix) + 1, Len(s)) = suffix

\* s[n:]
DropFirst(s, n) == SubSeq(s, n + 1, Len(s))

\* s[:-n]
DropLast(s, n) == SubSeq(s, 1, Len(s) - n)

(***************************************************************************)
(* JSON values a judge reply can decode to.  A decoded value is a record   *)
(*   kind  : "object" | "array" | "number" | "string" | "null"             *)
(*   score : the "score" member, [t, n] with n in hundredths               *)
(*           t: "absent" | "num" | "numstr" | "str" | "null" | "list" |    *)
(*              "bool"                                                     *)
(*   recs  : the "recommendations" member, [t, items, s]                   *)
(*           t: "absent" | "list" | "str" | "null" | "num"                 *)
(*           items: the elements of a list, each [t, s, truthy]            *)
(*           s: str(value) of a non-list value                             *)
(***************************************************************************)
ScoreAbsent == [t |-> "absent", n |-> 0]
ScoreNum(n) == [t |-> "num", n |-> n]
ScoreNumStr(n) == [t |-> "numstr", n |-> n]
ScoreStr == [t |-> "str", n |-> 0]
ScoreNull == [t |-> "null", n |-> 0]
ScoreList == [t |-> "list", n |-> 0]
ScoreBool == [t |-> "bool", n |-> 100]

ItemStr(s) == [t |-> "str", s |-> s, truthy |-> s # <<>>]
ItemNum(n) == [t |-> "num", s |-> <<"num">>, truthy |-> n # 0]
ItemNull == [t |-> "null", s |-> <<"None">>, truthy |-> FALSE]

RecsAbsent == [t |-> "absent", items |-> <<>>, s |-> <<>>]
RecsList(items) == [t |-> "list", items |-> items, s |-> <<>>]
RecsStr(s) == [t |-> "str", items |-> <<>>, s |-> s]
RecsNull == [t |-> "null", items |-> <<>>, s |-> <<"None">>]
RecsNum == [t |-> "num", items |-> <<>>, s |-> <<"5">>]

JObject(score, recs) == [kind |-> "object", score |-> score, recs |-> recs]
JOther(kind) == [kind |-> kind, score |-> ScoreAbsent, recs |-> RecsAbsent]

\* The reply bodies of the model: each atom is the literal text of one JSON
\* document, JsonDocs gives the value json.loads decodes it to.
JsonDocs ==
    [d \in {"{\"score\": 12, \"recommendations\": [\"a\", \"\", \"  b  \"]}",
            "{\"score\": 7.35, \"recommendations\": []}",
            "{\"score\": -3, \"recommendations\": [\"a\"]}",
            "{\"score\": 8.5, \"recommendations\": [\" \", \"b\"]}",
            "{\"score\": \"7.5\", \"recommendations\": \"a\"}",
            "{\"score\": \"high\", \"recommendations\": []}",
            "{\"score\": null, \"recommendations\": []}",
            "{\"score\": [1], \"recommendations\": []}",
            "{\"score\": true}",
            "{\"recommendations\": [\"a\"]}",
            "{}",
            "{\"score\": 5, \"recommendations\": [1]}",
            "{\"score\": 5, \"recommendations\": [0, null, \"a\"]}",
            "{\"score\": 5, \"recommendations\": null}",
            "{\"score\": 5, \"recommendations\": 5}",
            "{\"score\": 5, \"recommendations\": \"  \"}",
            "[1, 2]",
            "5",
            "\"ok\"",
            "null"} |->
      CASE d = "{\"score\": 12, \"recommendations\": [\"a\", \"\", \"  b  \"]}" ->
             JObject(ScoreNum(1200),
                     RecsList(<<ItemStr(<<"a">>), ItemStr(<<>>),
                                ItemStr(<<" ", " ", "b", " ", " ">>)>>))
        [] d = "{\"score\": 7.35, \"recommendations\": []}" ->
             JObject(ScoreNum(735), RecsList(<<>>))
        [] d = "{\"score\": -3, \"recommendations\": [\"a\"]}" ->
             JObject(ScoreNum(-300), RecsList(<<ItemStr(<<"a">>)>>))
        [] d = "{\"score\": 8.5, \"recommendations\": [\" \", \"b\"]}" ->
             JObject(ScoreNum(850),
                     RecsList(<<ItemStr(<<" ">>), ItemStr(<<"b">>)>>))
        [] d = "{\"score\": \"7.5\", \"recommendations\": \"a\"}" ->
             JObject(ScoreNumStr(750), RecsStr(<<"a">>))
        [] d = "{\"score\": \"high\", \"recommendations\": []}" ->
             JObject(ScoreStr, RecsList(<<>>))
        [] d = "{\"score\": null, \"recommendations\": []}" ->
             JObject(ScoreNull, RecsList(<<>>))
        [] d = "{\"score\": [1], \"recommendations\": []}" ->
             JObject(ScoreList, RecsList(<<>>))
        [] d = "{\"score\": true}" ->
             JObject(ScoreBool, RecsAbsent)
        [] d = "{\"recommendations\": [\"a\"]}" ->
             JObject(ScoreAbsent, RecsList(<<ItemStr(<<"a">>)>>))
        [] d = "{}" ->
             JObject(ScoreAbsent, RecsAbsent)
        [] d = "{\"score\": 5, \"recommendations\": [1]}" ->
             JObject(ScoreNum(500), RecsList(<<ItemNum(1)>>))
        [] d = "{\"score\": 5, \"recommendations\": [0, null, \"a\"]}" ->
             JObject(ScoreNum(500),
                     RecsList(<<ItemNum(0), ItemNull, ItemStr(<<"a">>)>>))
        [] d = "{\"score\": 5, \"recommendations\": null}" ->
             JObject(ScoreNum(500), RecsNull)
        [] d = "{\"score\": 5, \"recommendations\": 5}" ->
             JObject(ScoreNum(500), RecsNum)
        [] d = "{\"score\": 5, \"recommendations\": \"  \"}" ->
             JObject(ScoreNum(500), RecsStr(<<" ", " ">>))
        [] d = "[1, 2]" -> JOther("array")
        [] d = "5" -> JOther("number")
        [] d = "\"ok\"" -> JOther("string")
        [] d = "null" -> JOther("null")]

\* Atoms of a reply that are not JSON documents.
\* The three-backtick code fence marker (one atom).
Fence == "<fence>"
LangJson == "json"
LangOther == "python"
ProseAtoms == {"not json"}

BodyAtoms == DOMAIN JsonDocs \cup ProseAtoms

(***************************************************************************)
(* EvaluationResult (models/schemas.py) and the parser of the judge reply  *)
(***************************************************************************)
\* EvaluationResult: score in tenths (0..100 is 0.0..10.0), recommendations
\* a list of str, metadata <<>> for None or <<m>> for an EvaluationMetadata.
EvaluationResult(score, recommendations) ==
    [score |-> score, recommendations |-> recommendations, metadata |-> <<>>]

\* Field(ge=0, le=10) of EvaluationResult.score
ScoreInRange(result) == 0 <= result.score /\ result.score <= 100

MsgFormatNotRecognized ==
    <<"Erro ao processar resposta da avaliacao. O formato da resposta do LLM nao foi reconhecido.">>

FormatNotRecognized ==
    EvaluationResult(0, <<MsgFormatNotRecognized>>)

\* The exceptions the parser's except clause names.
ParserCaught == {"JSONDecodeError", "KeyError", "TypeError"}

\* Lines 322-329: strip, drop a leading fence (with the json tag first),
\* drop a trailing fence, strip again.
StripFences(response) ==
    LET r1 == Strip(response)
        r2 == IF StartsWith(r1, <<Fence, LangJson>>) THEN DropFirst(r1, 2) ELSE r1
        r3 == IF StartsWith(r2, <<Fence>>) THEN DropFirst(r2, 1) ELSE r2
        r4 == IF EndsWith(r3, <<Fence>>) THEN DropLast(r3, 1) ELSE r3
    IN  Strip(r4)

\* json.loads: the text decodes iff it is exactly one JSON document.
JsonLoads(text) ==
    IF Len(text) = 1 /\ text[1] \in DOMAIN JsonDocs
    THEN [exc |-> "none", value |-> JsonDocs[text[1]]]
    ELSE [exc |-> "JSONDecodeError", value |-> JOther("null")]

\* float(data.get("score", 0)): value in hundredths, or the exception raised.
ToFloat(score) ==
    CASE score.t = "absent" -> [exc |-> "none", v |-> 0]
      [] score.t \in {"num", "numstr", "bool"} -> [exc |-> "none", v |-> score.n]
      [] score.t = "str" -> [exc |-> "ValueError", v |-> 0]
      [] OTHER -> [exc |-> "TypeError", v |-> 0]

Min(a, b) == IF b < a THEN b ELSE a
Max(a, b) == IF b > a THEN b ELSE a

\* max(0.0, min(10.0, score)), in hundredths
Clamp(v) == Max(0, Min(1000, v))

\* Where the IEEE double nearest to the decimal h/100 lies when h/100 is a
\* decimal tie (h % 10 = 5): -1 below it, 0 exactly on it, 1 above it.
DoubleSide(h) ==
    CASE h = 725 -> 0
      [] h = 735 -> -1
      [] h = 745 -> 1
      [] h = 995 -> -1
      [] OTHER -> 0

\* round(score, 1): the double's exact value correctly rounded to one
\* decimal, an exact tie going to the even digit.  Result in tenths.
Round1(h) ==
    LET q == h \div 10
        r == h % 10
    IN  IF r < 5 THEN q
        ELSE IF r > 5 THEN q + 1
        ELSE IF DoubleSide(h) < 0 THEN q
        ELSE IF DoubleSide(h) > 0 THEN q + 1
        ELSE IF q % 2 = 0 THEN q ELSE q + 1

\* data.get("recommendations", []) coerced to a list (lines 336-338)
RecsToList(recs) ==
    CASE recs.t = "absent" -> <<>>
      [] recs.t = "list" -> recs.items
      [] OTHER -> <<ItemStr(recs.s)>>

\* [r for r in recommendations if r and r.strip()] (line 341): r.strip() is
\* called on every truthy element, and raises on one that is not a str.
CleanRaises(items) ==
    \E i \in 1..Len(items) : items[i].truthy /\ items[i].t # "str"

RECURSIVE CleanRecommendations(_)
CleanRecommendations(items) ==
    IF items = <<>> THEN <<>>
    ELSE LET r == Head(items)
             rest == CleanRecommendations(Tail(items))
         IN  IF r.truthy /\ Strip(r.s) # <<>> THEN <<r.s>> \o rest ELSE rest

\* The try block of _parse_response (lines 320-346): the exception it ends
\* with ("none" when it returns) and the result it builds.
ParseTry(response) ==
    LET loaded == JsonLoads(StripFences(response))
        data == loaded.value
        f == ToFloat(data.score)
        items == RecsToList(data.recs)
    IN  IF loaded.exc # "none" THEN [exc |-> loaded.exc, result |-> FormatNotRecognized]
        ELSE IF data.kind # "object"
             THEN [exc |-> "AttributeError", result |-> FormatNotRecognized]
        ELSE IF f.exc # "none" THEN [exc |-> f.exc, result |-> FormatNotRecognized]
        ELSE IF CleanRaises(items)
             THEN [exc |-> "AttributeError", result |-> FormatNotRecognized]
        ELSE [exc |-> "none",
              result |-> EvaluationResult(Round1(Clamp(f.v)),
                                          CleanRecommendations(items))]

\* _parse_response: [raised, result]; raised is "none" when it returns.
_parse_response(response) ==
    LET t == ParseTry(response)
    IN  IF t.exc = "none" THEN [raised |-> "none", result |-> t.result]
        ELSE IF t.exc \in ParserCaught
             THEN [raised |-> "none", result |-> FormatNotRecognized]
        ELSE [raised |-> t.exc, result |-> FormatNotRecognized]

(***************************************************************************)
(* Files and the extraction payload                                        *)
(***************************************************************************)
\* Largest byte value of a file's content; files hold at most one byte.
MaxByte == 1
Byte == 0..MaxByte
FileBytes == {<<>>} \cup {<<b>> : b \in Byte}

\* Paths a request can name: two documents, a copy under another suffix the
\* tool accepts, and a file of an unsupported format.
DocPaths == {"a.docx", "copy/b.doc"}
Paths == DocPaths \cup {"notes.txt"}

\* arquivo.suffix.lower()
Suffix(path) ==
    CASE path = "a.docx" -> ".docx"
      [] path = "copy/b.doc" -> ".doc"
      [] OTHER -> ".txt"

\* hashlib.sha256 over the chunks read from the file: an injective digest
\* of the byte stream (no collisions), independent of the path.
RECURSIVE Sha256(_, _)
Sha256(state, bytes) ==
    IF bytes = <<>> THEN state
    ELSE Sha256(state * (MaxByte + 2) + Head(bytes) + 1, Tail(bytes))

\* A key that also depends on the file's name.
HashOfNameAndBytes(file) ==
    Sha256(IF file.name = "a.docx" THEN 0 ELSE 1, file.bytes)

_get_file_hash(file) == Sha256(0, file.bytes)

\* The extraction dict (ExtractionResult.model_dump(mode="json")):
\*   markdown: str; diagrams: list of {index, description, diagram_type}
\*   (diagram_type <<>> for None); metadata: word_count, image_count,
\*   relevant_images, vision_enabled; _cache_metadata: <<>> while the key is
\*   absent, <<m>> once save has added it.  Timestamps are left out.
ExtractionDict(markdown, diagrams, metadata) ==
    [markdown |-> markdown, diagrams |-> diagrams, metadata |-> metadata,
     _cache_metadata |-> <<>>]

(***************************************************************************)
(* The text of a cache file: a sequence of JSON tokens [k, s, n].          *)
(***************************************************************************)
TBegin == [k |-> "{", s |-> <<>>, n |-> 0]
TEnd == [k |-> "}", s |-> <<>>, n |-> 0]
TKey(name) == [k |-> "key", s |-> <<name>>, n |-> 0]
TStr(s) == [k |-> "str", s |-> s, n |-> 0]
TNum(n) == [k |-> "num", s |-> <<>>, n |-> n]
TBool(b) == [k |-> "bool", s |-> <<>>, n |-> IF b THEN 1 ELSE 0]
\* A byte sequence that is not valid UTF-8.
TBadUtf8 == [k |-> "\\xff", s |-> <<>>, n |-> 0]

RECURSIVE DumpDiagrams(_)
DumpDiagrams(ds) ==
    IF ds = <<>> THEN <<>>
    ELSE <<TNum(Head(ds).index), TStr(Head(ds).description),
           TStr(Head(ds).diagram_type)>> \o DumpDiagrams(Tail(ds))

\* json.dumps(extraction, ensure_ascii=False, indent=2, default=str)
JsonDumps(d) ==
    <<TBegin, TKey("markdown"), TStr(d.markdown),
      TKey("diagrams"), TNum(Len(d.diagrams))>>
    \o DumpDiagrams(d.diagrams)
    \o <<TKey("metadata"), TNum(d.metadata.word_count),
         TNum(d.metadata.image_count), TNum(d.metadata.relevant_images),
         TBool(d.metadata.vision_enabled)>>
    \o (IF d._cache_metadata = <<>> THEN <<>>
        ELSE <<TKey("_cache_metadata"),
               TStr(<<d._cache_metadata[1].source_file>>),
               TNum(d._cache_metadata[1].file_hash)>>)
    \o <<TEnd>>

HasKind(text, i, k) == i <= Len(text) /\ text[i].k = k
HasKey(text, i, name) == i <= Len(text) /\ text[i] = TKey(name)

\* Whether text[from .. from + 3*n - 1] is n well-formed diagram objects.
DiagramsWellFormed(text, from, n) ==
    \A j \in 0..(n - 1) :
        /\ HasKind(text, from + 3 * j, "num")
        /\ HasKind(text, from + 3 * j + 1, "str")
        /\ HasKind(text, from + 3 * j + 2, "str")

RECURSIVE LoadDiagrams(_, _, _)
LoadDiagrams(text, from, n) ==
    IF n = 0 THEN <<>>
    ELSE Append(LoadDiagrams(text, from, n - 1),
                [index |-> text[from + 3 * (n - 1)].n,
                 description |-> text[from + 3 * (n - 1) + 1].s,
                 diagram_type |-> text[from + 3 * (n - 1) + 2].s])

\* Whether the text is one complete JSON document of the shape dumps writes.
WellFormed(text) ==
    /\ HasKind(text, 1, "{")
    /\ HasKey(text, 2, "markdown") /\ HasKind(text, 3, "str")
    /\ HasKey(text, 4, "diagrams") /\ HasKind(text, 5, "num")
    /\ LET n == text[5].n
           m == 6 + 3 * n
       IN  /\ DiagramsWellFormed(text, 6, n)
           /\ HasKey(text, m, "metadata")
           /\ HasKind(text, m + 1, "num") /\ HasKind(text, m + 2, "num")
           /\ HasKind(text, m + 3, "num") /\ HasKind(text, m + 4, "bool")
           /\ \/ /\ Len(text) = m + 5
                 /\ HasKind(text, m + 5, "}")
              \/ /\ Len(text) = m + 8
                 /\ HasKey(text, m + 5, "_cache_metadata")
                 /\ HasKind(text, m + 6, "str") /\ Len(text[m + 6].s) = 1
                 /\ HasKind(text, m + 7, "num")
                 /\ HasKind(text, m + 8, "}")

\* The dict a well-formed text decodes to.
Decoded(text) ==
    LET n == text[5].n
        m == 6 + 3 * n
    IN  [markdown |-> text[3].s,
         diagrams |-> LoadDiagrams(text, 6, n),
         metadata |-> [word_count |-> text[m + 1].n,
                       image_count |-> text[m + 2].n,
                       relevant_images |-> text[m + 3].n,
                       vision_enabled |-> text[m + 4].n = 1],
         _cache_metadata |->
             IF Len(text) = m + 8
             THEN <<[source_file |-> text[m + 6].s[1],
                     file_hash |-> text[m + 7].n]>>
             ELSE <<>>]

\* json.loads(cache_path.read_text(encoding="utf-8")): read_text raises
\* UnicodeDecodeError on bytes that are not UTF-8, json.loads raises
\* JSONDecodeError on text that is not a JSON document.
ReadJson(text) ==
    IF \E i \in 1..Len(text) : text[i] = TBadUtf8
    THEN [exc |-> "UnicodeDecodeError", value |-> <<>>]
    ELSE IF ~WellFormed(text)
    THEN [exc |-> "JSONDecodeError", value |-> <<>>]
    ELSE [exc |-> "none", value |-> <<Decoded(text)>>]

(***************************************************************************)
(* State                                                                   *)
(***************************************************************************)
VARIABLES
    store,       \* cache_dir: file hash -> text of <hash>.json
    dirExists,   \* whether cache_dir exists
    enabled,     \* CacheManager.enabled (settings.cache_enabled)
    pc,          \* stage of the request being served by avaliar
    req,         \* the request: file, no_cache, no_vision, tipo, include_metadata
    extraction,  \* extraction_dict: <<>> for None, <<d>> for a dict
    cached,      \* whether extraction_dict came from the cache
    prompt,      \* the user prompt built for the judge, <<>> before it is built
    judge,       \* what the judge call did in this request
    parsed,      \* the replies handed to _parse_response in this request
    result,      \* <<>> or <<EvaluationResult>> returned by evaluate
    error,       \* why the request ended in ERROR, "" otherwise
    extracted,   \* history: hashes of the contents the backend has extracted
                 \* with success while the cache was enabled
    call,        \* cache check: the last call made on the CacheManager
    procs,       \* concurrent pipeline instances, each inside CacheManager.save
    dims,        \* image filter check: the <<width, height>> given to analyze
    analysis,    \* <<>> or <<ImageAnalysis>> returned by analyze
    picturesIn,  \* extractor check: doc.pictures of the converted document
    picturesKept, \* <<>> or <<relevant_pictures>> once filter_pictures ran
    diagramsOut, \* <<>> or <<diagrams>> once the description loop ran
    corpus,      \* samples_dir/mit41: whether it exists and its *.docx files
    refCache,    \* references_cache/mit41_references.json: <<>> or <<data>>
    loads,       \* the load_references calls made so far, oldest first
    loading,     \* <<>> or <<what a load_references call in progress holds>>
    sectionIn,   \* prompt section check: references, max_excerpts, max_chars
    sectionOut,  \* <<>> or <<what get_reference_prompt_section rendered>>
    markdownIn,  \* excerpt check: the lines given to _extract_key_sections
    excerptsOut, \* <<>> or <<the excerpts it returned>>
    vlmInvoked,  \* <<>> or <<positions of the relevant pictures sent to the VLM>>
    reply,       \* parser check: the raw reply
    parseOut     \* parser check: <<>> or <<what _parse_response did>>

vars == <<store, dirExists, enabled, pc, req, extraction, cached, prompt,
          judge, parsed, result, error, extracted, call, procs, reply, parseOut,
          dims, analysis, picturesIn, picturesKept, diagramsOut,
          corpus, refCache, loads, loading, sectionIn, sectionOut,
          markdownIn, excerptsOut, vlmInvoked>>

cacheVars == <<store, dirExists, enabled, call>>
requestVars ==
    <<pc, req, extraction, cached, prompt, judge, parsed, result, error, extracted>>
parserVars == <<reply, parseOut>>
extractVars ==
    <<dims, analysis, picturesIn, picturesKept, diagramsOut, vlmInvoked>>
refVars ==
    <<corpus, refCache, loads, loading, sectionIn, sectionOut, markdownIn,
      excerptsOut>>

(***************************************************************************)
(* CacheManager (cache/manager.py)                                         *)
(***************************************************************************)
Remove(st, h) == [k \in DOMAIN st \ {h} |-> st[k]]

\* The exceptions get's except clause names.
GetCaught == {"JSONDecodeError", "OSError"}

\* A get that never finds an entry.
CacheGetMiss(st, on, file) == [raised |-> "none", value |-> <<>>, store |-> st]

\* CacheManager.get: [raised, value, store], value <<>> for None.
CacheGet(st, on, file) ==
    LET h == _get_file_hash(file)
        r == ReadJson(st[h])
    IN  IF ~on \/ h \notin DOMAIN st
        THEN [raised |-> "none", value |-> <<>>, store |-> st]
        ELSE IF r.exc = "none"
        THEN [raised |-> "none", value |-> r.value, store |-> st]
        ELSE IF r.exc \in GetCaught
        THEN [raised |-> "none", value |-> <<>>, store |-> Remove(st, h)]
        ELSE [raised |-> r.exc, value |-> <<>>, store |-> st]

\* A save that writes nothing.
CacheSaveNothing(st, on, file, d) == [store |-> st, extraction |-> d]

\* CacheManager.save: the store afterwards and the caller's dict, which
\* save mutates in place by adding _cache_metadata.
CacheSave(st, on, file, d) ==
    LET h == _get_file_hash(file)
        d2 == [d EXCEPT !._cache_metadata =
                  <<[source_file |-> file.name, file_hash |-> h]>>]
    IN  IF ~on THEN [store |-> st, extraction |-> d]
        ELSE [store |-> (h :> JsonDumps(d2)) @@ st, extraction |-> d2]

\* A clear that counts the files and removes none.
CacheClearKeeps(st, exists) == [count |-> Cardinality(DOMAIN st), store |-> st]

\* CacheManager.clear: [count, store]
CacheClear(st, exists) ==
    IF exists
    THEN [count |-> Cardinality(DOMAIN st), store |-> << >>]
    ELSE [count |-> 0, store |-> st]

(***************************************************************************)
(* ImageFilter (ingestors/image_filter.py)                                 *)
(***************************************************************************)
MIN_WIDTH == 200
MIN_HEIGHT == 200
MIN_AREA == 40000
\* MIN_ASPECT_RATIO = 0.2 and MAX_ASPECT_RATIO = 5.0, in tenths
MIN_ASPECT_RATIO_X10 == 2
MAX_ASPECT_RATIO_X10 == 50

\* The ImageAnalysis dataclass. aspect_ratio is kept as the exact fraction
\* <<numerator, denominator>>.
ImageAnalysis(is_relevant, reason, width, height, area, aspect_ratio) ==
    [is_relevant |-> is_relevant, reason |-> reason, width |-> width,
     height |-> height, area |-> area, aspect_ratio |-> aspect_ratio]

\* analyze with the height check made before the width check.
AnalyzeHeightFirst(width, height) ==
    LET area == width * height
        aspect_ratio == IF height > 0 THEN <<width, height>> ELSE <<0, 1>>
        Reject(reason) ==
            ImageAnalysis(FALSE, reason, width, height, area, aspect_ratio)
    IN  IF height < MIN_HEIGHT THEN Reject("height")
        ELSE IF width < MIN_WIDTH THEN Reject("width")
        ELSE IF area < MIN_AREA THEN Reject("area")
        ELSE IF aspect_ratio[1] * 10 < MIN_ASPECT_RATIO_X10 * aspect_ratio[2]
             THEN Reject("aspect_min")
        ELSE IF aspect_ratio[1] * 10 > MAX_ASPECT_RATIO_X10 * aspect_ratio[2]
             THEN Reject("aspect_max")
        ELSE ImageAnalysis(TRUE, "ok", width, height, area, aspect_ratio)

\* ImageFilter.analyze with the default thresholds. The reason is the name
\* of the bound the message is about. aspect_ratio = width / height if
\* height > 0 else 0, compared exactly with 0.2 and 5.0.
analyze(width, height) ==
    LET area == width * height
        aspect_ratio == IF height > 0 THEN <<width, height>> ELSE <<0, 1>>
        Reject(reason) ==
            ImageAnalysis(FALSE, reason, width, height, area, aspect_ratio)
    IN  IF width < MIN_WIDTH THEN Reject("width")
        ELSE IF height < MIN_HEIGHT THEN Reject("height")
        ELSE IF area < MIN_AREA THEN Reject("area")
        ELSE IF aspect_ratio[1] * 10 < MIN_ASPECT_RATIO_X10 * aspect_ratio[2]
             THEN Reject("aspect_min")
        ELSE IF aspect_ratio[1] * 10 > MAX_ASPECT_RATIO_X10 * aspect_ratio[2]
             THEN Reject("aspect_max")
        ELSE ImageAnalysis(TRUE, "ok", width, height, area, aspect_ratio)

\* A picture of the backend's document:
\*   has_image: pic.image is present; size: "object" (size.width/.height),
\*   "tuple" (a pair) or "none" (no usable size); description: the text the
\*   backend attached (pic.meta.description), <<>> when none.
Picture(has_image, size, width, height, description) ==
    [has_image |-> has_image, size |-> size, width |-> width,
     height |-> height, description |-> description]

\* Whether filter_pictures keeps the picture.
KeepsPicture(pic) ==
    /\ pic.has_image
    /\ pic.size \in {"object", "tuple"}
    /\ analyze(pic.width, pic.height).is_relevant

\* filter_pictures without the test for the image data.
FilterIgnoringPayload(pictures) ==
    SelectSeq(pictures,
              LAMBDA pic : /\ pic.size \in {"object", "tuple"}
                           /\ analyze(pic.width, pic.height).is_relevant)

RECURSIVE filter_pictures(_)
filter_pictures(pictures) ==
    IF pictures = <<>> THEN <<>>
    ELSE IF KeepsPicture(Head(pictures))
         THEN <<Head(pictures)>> \o filter_pictures(Tail(pictures))
         ELSE filter_pictures(Tail(pictures))

(***************************************************************************)
(* DoclingExtractor (ingestors/docling_extractor.py)                       *)
(***************************************************************************)
\* settings.vision_enabled (default)
SettingsVisionEnabled == TRUE

\* What the backend's converter returns for a file: one word of markdown and
\* one picture per byte of the file.
RECURSIVE ConvertMarkdown(_)
ConvertMarkdown(bytes) ==
    IF bytes = <<>> THEN <<>>
    ELSE <<ToString(Head(bytes))>> \o ConvertMarkdown(Tail(bytes))

ConvertPicture(b) ==
    CASE b = 0 -> Picture(TRUE, "object", 800, 600, <<>>)
      [] b = 1 -> Picture(TRUE, "tuple", 640, 480, <<"fluxo", "aprovado">>)
      [] OTHER -> Picture(TRUE, "object", 120, 60, <<>>)

RECURSIVE ConvertPictures(_)
ConvertPictures(bytes) ==
    IF bytes = <<>> THEN <<>>
    ELSE <<ConvertPicture(Head(bytes))>> \o ConvertPictures(Tail(bytes))

\* What the vision model can answer for one image: <<>> stands for a failed
\* or empty answer (_describe_image_with_vlm returns "").
VlmAnswers == {<<>>, <<"diagrama", "bpmn">>}

\* _detect_diagram_type: <<>> for None
_detect_diagram_type(description) ==
    LET has(w) == \E i \in 1..Len(description) : description[i] = w
    IN  IF has("bpmn") THEN <<"BPMN">>
        ELSE IF has("swimlane") \/ has("raia") THEN <<"Swimlane">>
        ELSE IF has("fluxo") \/ has("flowchart") THEN <<"Flowchart">>
        ELSE IF has("processo") \/ has("process") THEN <<"Process Diagram">>
        ELSE <<>>

\* Lines 195-206: the description of relevant picture i (0-based): the one
\* the backend attached, else the vision model's answer vlm[i + 1].
DescriptionOf(pic, i, vlm) ==
    IF pic.description # <<>> THEN pic.description ELSE Strip(vlm[i + 1])

\* Lines 192-206: the positions (from 0) of the relevant pictures handed to
\* _describe_image_with_vlm: inside the vision branch, those without a
\* description of the backend's, when there is an llm_client.
VlmCalls(relevant, vision, has_client) ==
    IF vision /\ has_client
    THEN {i - 1 : i \in {j \in 1..Len(relevant) : relevant[j].description = <<>>}}
    ELSE {}

\* Lines 191-215: the DiagramDescriptions of the relevant pictures from
\* position i on.
RECURSIVE Diagrams(_, _, _)
Diagrams(relevant, i, vlm) ==
    IF i >= Len(relevant) THEN <<>>
    ELSE LET description == DescriptionOf(relevant[i + 1], i, vlm)
             rest == Diagrams(relevant, i + 1, vlm)
         IN  IF description # <<>>
             THEN <<[index |-> i, description |-> description,
                     diagram_type |-> _detect_diagram_type(description)]>> \o rest
             ELSE rest

\* DoclingExtractor(enable_vision).extract_to_dict(file) when the backend
\* converts the file; vlm gives the vision model's answer per relevant image.
extract_to_dict(file, enable_vision, vlm) ==
    LET markdown == ConvertMarkdown(file.bytes)
        all_pictures == ConvertPictures(file.bytes)
        relevant_pictures == filter_pictures(all_pictures)
        vision == enable_vision /\ SettingsVisionEnabled
        diagrams == IF vision THEN Diagrams(relevant_pictures, 0, vlm) ELSE <<>>
    IN  ExtractionDict(markdown, diagrams,
            [word_count |-> Len(markdown),
             image_count |-> Len(all_pictures),
             relevant_images |-> Len(relevant_pictures),
             vision_enabled |-> vision /\ Len(diagrams) > 0])

\* The vision answers an extraction of the file can get.
VlmChoices(file) == [1..Len(file.bytes) -> VlmAnswers]

(***************************************************************************)
(* ReferenceManager (knowledge_base/references.py), for the one document   *)
(* type mit41.                                                             *)
(***************************************************************************)
\* A line of markdown, by what _extract_key_sections observes of it:
\*   head: it starts with "#", or starts and ends with "**" (line 111);
\*   title: line.strip("#* "); pipe: "|" in line; len: len(line).
Line(text, head, title, pipe, len) ==
    [text |-> text, head |-> head, title |-> title, pipe |-> pipe, len |-> len]

\* len("\n".join(lines))
RECURSIVE TextLen(_)
TextLen(lines) ==
    IF lines = <<>> THEN 0
    ELSE IF Len(lines) = 1 THEN Head(lines).len
    ELSE Head(lines).len + 1 + TextLen(Tail(lines))

\* A retention that asks for three lines only.
KeepsThree(current_section) ==
    /\ Len(current_section) >= 3
    /\ \/ \E i \in 1..Len(current_section) : current_section[i].pipe
       \/ TextLen(current_section) > 200

\* Lines 113-116 and 131-133: a section is kept when it has more than three
\* lines and holds a "|" or more than 200 characters.
Keeps(current_section) ==
    /\ Len(current_section) > 3
    /\ \/ \E i \in 1..Len(current_section) : current_section[i].pipe
       \/ TextLen(current_section) > 200

\* Lines 117-120: content is section_text[:2000], kept as its lines and the
\* number of characters left.
Excerpt(current_title, current_section) ==
    [title |-> current_title,
     content |-> [lines |-> current_section,
                  chars |-> Min(TextLen(current_section), 2000)]]

\* Lines 109-137: the loop over the lines, then the last section.
RECURSIVE Sections(_, _, _, _)
Sections(lines, current_section, current_title, excerpts) ==
    LET closed == IF Keeps(current_section)
                  THEN Append(excerpts, Excerpt(current_title, current_section))
                  ELSE excerpts
    IN  IF lines = <<>> THEN closed
        ELSE IF Head(lines).head
             THEN Sections(Tail(lines), <<Head(lines)>>, Head(lines).title, closed)
             ELSE Sections(Tail(lines), Append(current_section, Head(lines)),
                           current_title, excerpts)

_extract_key_sections(markdown, source_name) ==
    [source |-> source_name, excerpts |-> Sections(markdown, <<>>, "", <<>>)]

\* The samples directory: exists, and files, the *.docx files in the order
\* glob lists them. A sample is [name, mtime, fails, markdown]: its stem,
\* its st_mtime, whether extractor.extract raises on it and, when it does
\* not, the lines of result.markdown.
NoCorpus == [exists |-> FALSE, files |-> <<>>]

\* No call of get_reference_prompt_section yet.
NoSection == [references |-> <<>>, max_excerpts |-> 0, max_chars |-> 0]

\* "" when the directory is missing, else a digest of the names and mtimes
\* of the files sorted by name: the set of the pairs, without collisions.
_get_samples_hash(c) ==
    IF ~c.exists THEN <<>>
    ELSE <<{<<c.files[i].name, c.files[i].mtime>> : i \in 1..Len(c.files)}>>

\* <<>> for None, <<cached>> when the file exists and holds the current hash.
_load_cached_references(cache, c) ==
    IF cache = <<>> THEN <<>>
    ELSE IF cache[1].hash = _get_samples_hash(c) THEN cache ELSE <<>>

\* Lines 176-192: the groups of the samples that extract and have excerpts.
RECURSIVE ExtractSamples(_)
ExtractSamples(docx_files) ==
    IF docx_files = <<>> THEN <<>>
    ELSE LET docx_file == Head(docx_files)
             sections == _extract_key_sections(docx_file.markdown, docx_file.name)
             rest == ExtractSamples(Tail(docx_files))
         IN  IF docx_file.fails \/ sections.excerpts = <<>> THEN rest
             ELSE <<sections>> \o rest

\* What one load_references call does: [raised, returned, cache, invoked],
\* cache being the cache file after the call and invoked the number of
\* extractor.extract calls made.
LoadOutcome(raised, returned, cache, invoked) ==
    [raised |-> raised, returned |-> returned, cache |-> cache,
     invoked |-> invoked]

\* load_references letting the failure of a sample end the call.
LoadAbortsOnFailure(c, cache) ==
    LET hit == _load_cached_references(cache, c)
        failing == {i \in 1..Len(c.files) : c.files[i].fails}
        references == ExtractSamples(c.files)
    IN  IF hit # <<>> THEN LoadOutcome(FALSE, hit[1].references, cache, 0)
        ELSE IF ~c.exists \/ c.files = <<>>
             THEN LoadOutcome(FALSE, <<>>, cache, 0)
        ELSE IF failing # {}
             THEN LoadOutcome(TRUE, <<>>, cache,
                              CHOOSE i \in failing : \A j \in failing : i <= j)
        ELSE LoadOutcome(FALSE, references,
                         IF references # <<>>
                         THEN <<[hash |-> _get_samples_hash(c), mit_type |-> "mit41",
                                 references |-> references]>>
                         ELSE cache,
                         Len(c.files))

\* load_references (lines 155-203). The import of DoclingExtractor at line
\* 178 cannot fail inside the installed package (the backend itself is
\* imported by extract, inside the inner try), so line 194 is not taken.
load_references(c, cache) ==
    LET hit == _load_cached_references(cache, c)
        references == ExtractSamples(c.files)
    IN  IF hit # <<>> THEN LoadOutcome(FALSE, hit[1].references, cache, 0)
        ELSE IF ~c.exists \/ c.files = <<>>
             THEN LoadOutcome(FALSE, <<>>, cache, 0)
        ELSE LoadOutcome(FALSE, references,
                         IF references # <<>>
                         THEN <<[hash |-> _get_samples_hash(c), mit_type |-> "mit41",
                                 references |-> references]>>
                         ELSE cache,
                         Len(c.files))

\* Lines 232-258 of get_reference_prompt_section: the two loops, from
\* excerpt e of group g on. A break of the inner loop goes on with the next
\* group; the test of line 236 is made on entering a group. An entry is
\* [group, pos, title, source, chars, truncated], chars being len(content)
\* as appended, the six characters of the marker "\n[...]" included.
RECURSIVE SectionLoop(_, _, _, _, _, _, _)
SectionLoop(references, max_excerpts, max_chars, g, e, total_chars, entries) ==
    IF g > Len(references) THEN [entries |-> entries, total_chars |-> total_chars]
    ELSE IF e = 1 /\ Len(entries) >= max_excerpts
    THEN [entries |-> entries, total_chars |-> total_chars]
    ELSE IF \/ e > Len(references[g].excerpts)
            \/ Len(entries) >= max_excerpts
            \/ total_chars >= max_chars
    THEN SectionLoop(references, max_excerpts, max_chars, g + 1, 1,
                     total_chars, entries)
    ELSE LET excerpt == references[g].excerpts[e]
             remaining == max_chars - total_chars
             fits == total_chars + excerpt.content.chars <= max_chars
             chars == IF fits THEN excerpt.content.chars ELSE remaining + 6
         IN  IF ~fits /\ remaining < 500
             THEN SectionLoop(references, max_excerpts, max_chars, g + 1, 1,
                              total_chars, entries)
             ELSE SectionLoop(references, max_excerpts, max_chars, g, e + 1,
                              total_chars + chars,
                              Append(entries,
                                     [group |-> g, pos |-> e,
                                      title |-> excerpt.title,
                                      source |-> references[g].source,
                                      chars |-> chars, truncated |-> ~fits]))

\* get_reference_prompt_section on the list load_references returned:
\* empty is whether "" is returned (lines 223-224 and 260-261); otherwise
\* the text is the heading, one block per entry and the instruction.
get_reference_prompt_section(references, max_excerpts, max_chars) ==
    LET walked == SectionLoop(references, max_excerpts, max_chars, 1, 1, 0, <<>>)
    IN  [empty |-> references = <<>> \/ walked.entries = <<>>,
         entries |-> walked.entries,
         total_chars |-> walked.total_chars]

(***************************************************************************)
(* MIT041Evaluator (evaluators/mit041.py, evaluators/base.py)              *)
(***************************************************************************)
\* A validation that accepts every payload.
ValidateAnything(d) == TRUE

\* BaseEvaluator.validate_extraction: bool(extraction.get("markdown"))
validate_extraction(d) == d.markdown # <<>>

\* What _get_reference_section returns while the sample corpus is unchanged.
ReferenceSection == <<"## EXEMPLOS DE REFERENCIA (MITs nota 8+)">>

\* One "### Imagem n (type)" block per diagram of the dict.
RECURSIVE DiagramsSection(_)
DiagramsSection(diagrams) ==
    IF diagrams = <<>> THEN <<>>
    ELSE <<[heading |-> Head(diagrams).index + 1,
            diagram_type |-> Head(diagrams).diagram_type,
            description |-> Head(diagrams).description]>>
         \o DiagramsSection(Tail(diagrams))

\* get_user_prompt: the document, the diagrams section, the references.
get_user_prompt(d) ==
    [markdown |-> d.markdown,
     diagrams_section |-> DiagramsSection(d.diagrams),
     reference_section |-> ReferenceSection]

MsgEmptyDocument ==
    <<"Documento vazio ou invalido. Nao foi possivel extrair conteudo.">>

MsgTruncated ==
    <<"Resposta da avaliacao foi truncada por limite de tokens. Aumente LLM_MAX_TOKENS no arquivo .env (valor atual: ",
      "settings.llm_max_tokens", ").">>

MsgJudgeError(description) == <<"Erro ao avaliar documento: ", description>>

\* The message without the failure's description.
MsgUnexpectedErrorBare(description) ==
    <<"Erro inesperado ao avaliar documento: ">>

MsgUnexpectedError(description) ==
    <<"Erro inesperado ao avaliar documento: ", description>>

\* What the judge call can do: answer (content and finish_reason), raise
\* DTAError, or raise another exception (a timeout, a transport error).
JudgeResponse(content, finish_reason) ==
    [kind |-> "response", content |-> content,
     finish_reason |-> finish_reason, description |-> ""]
JudgeRaises(kind, description) ==
    [kind |-> kind, content |-> <<>>, finish_reason |-> "",
     description |-> description]
NoJudge == [kind |-> "none", content |-> <<>>, finish_reason |-> "",
            description |-> ""]

\* EvaluationMetadata built from the dict (lines 282-305); cached keeps the
\* default of the schema.
EvaluationMetadata(d) ==
    [mit_type |-> "MIT041", document_name |-> "unknown",
     word_count |-> d.metadata.word_count,
     image_count |-> d.metadata.image_count,
     relevant_images |-> d.metadata.relevant_images,
     vision_enabled |-> d.metadata.vision_enabled,
     cached |-> FALSE]

Returns(r, handed) == [raised |-> "none", result |-> r, parsed |-> handed]

\* Lines 279-307: what evaluate does with the parser's outcome p on the
\* reply content; an exception of the parser leaves evaluate.
AfterParse(p, d, include_metadata, content) ==
    IF p.raised # "none"
    THEN [raised |-> p.raised, result |-> p.result, parsed |-> <<content>>]
    ELSE IF include_metadata
    THEN Returns([p.result EXCEPT !.metadata = <<EvaluationMetadata(d)>>],
                 <<content>>)
    ELSE Returns(p.result, <<content>>)

\* An evaluate without the finish_reason check of lines 250-262.
EvaluateUnchecked(d, include_metadata, outcome) ==
    IF ~validate_extraction(d)
    THEN Returns(EvaluationResult(0, <<MsgEmptyDocument>>), <<>>)
    ELSE IF outcome.kind = "DTAError"
    THEN Returns(EvaluationResult(0, <<MsgJudgeError(outcome.description)>>), <<>>)
    ELSE IF outcome.kind # "response"
    THEN Returns(EvaluationResult(0, <<MsgUnexpectedError(outcome.description)>>), <<>>)
    ELSE AfterParse(_parse_response(outcome.content), d, include_metadata,
                    outcome.content)

\* MIT041Evaluator.evaluate on a dict, given what the judge call does:
\* [raised, result, parsed]; parsed lists the replies handed to the parser.
evaluate(d, include_metadata, outcome) ==
    IF ~validate_extraction(d)
    THEN Returns(EvaluationResult(0, <<MsgEmptyDocument>>), <<>>)
    ELSE IF outcome.kind = "response" /\ outcome.finish_reason = "length"
    THEN Returns(EvaluationResult(0, <<MsgTruncated>>), <<>>)
    ELSE IF outcome.kind = "DTAError"
    THEN Returns(EvaluationResult(0, <<MsgJudgeError(outcome.description)>>), <<>>)
    ELSE IF outcome.kind # "response"
    THEN Returns(EvaluationResult(0, <<MsgUnexpectedError(outcome.description)>>), <<>>)
    ELSE AfterParse(_parse_response(outcome.content), d, include_metadata,
                    outcome.content)

(***************************************************************************)
(* Inputs of the model                                                     *)
(***************************************************************************)
\* Longest run of whitespace put around a reply and its parts.
MaxPad == 1

RECURSIVE Pads(_)
Pads(n) ==
    IF n = 0 THEN {<<>>} ELSE Pads(n - 1) \cup {<<" ">> \o p : p \in Pads(n - 1)}

Openers == {<<>>, <<Fence>>, <<Fence, LangJson>>, <<Fence, LangOther>>}
Closers == {<<>>, <<Fence>>}
Breaks == {<<>>, <<"\n">>}

\* The raw replies: a body, optionally inside a code fence, optionally
\* padded with whitespace; and the empty reply.
Replies ==
    {<<>>} \cup
    {lead \o open \o b1 \o <<body>> \o b2 \o close \o trail :
        lead \in Pads(MaxPad), open \in Openers, b1 \in Breaks,
        body \in BodyAtoms, b2 \in Breaks, close \in Closers,
        trail \in Pads(MaxPad)}

\* The replies the judge gives in the request flow: one of each kind.
JudgeReplies ==
    {<<"{\"score\": 8.5, \"recommendations\": [\" \", \"b\"]}">>,
     <<Fence, LangJson, "\n", "{\"score\": 12, \"recommendations\": [\"a\", \"\", \"  b  \"]}", "\n", Fence>>,
     <<"not json">>,
     <<"[1, 2]">>,
     <<"{\"score\": \"high\", \"recommendations\": []}">>}

JudgeOutcomes ==
    {JudgeResponse(c, f) : c \in JudgeReplies, f \in {"stop", "length"}}
    \cup {JudgeRaises("DTAError", "HTTP 500"),
          JudgeRaises("Exception", "Request timed out.")}

\* --tipo values: two the tool accepts and one it does not.
Tipos == {"MIT041", "41", "MIT043"}
\* tipo.upper() in ["MIT041", "41"]
TipoSupported(tipo) == tipo \in {"MIT041", "41"}

Files == [name : Paths, bytes : FileBytes]

Requests ==
    [file : Files, no_cache : BOOLEAN, no_vision : BOOLEAN,
     tipo : Tipos, include_metadata : BOOLEAN]

NoRequest ==
    [file |-> [name |-> "a.docx", bytes |-> <<>>], no_cache |-> FALSE,
     no_vision |-> FALSE, tipo |-> "MIT041", include_metadata |-> FALSE]

\* The files and payloads the cache calls are made with: three contents,
\* each under two names.
CacheFiles == [name : DocPaths, bytes : {<<>>, <<0>>, <<1>>}]

\* Two payloads: one without diagrams and one with a diagram.
Payloads ==
    {extract_to_dict([name |-> "a.docx", bytes |-> <<0>>], v, <<<<"diagrama", "bpmn">>>>) :
        v \in BOOLEAN}

NoCall == [op |-> "none", file |-> NoRequest.file, payload |-> <<>>,
           value |-> <<>>, raised |-> "none", count |-> 0]

\* Pipeline instances that run at the same time.
NumInstances == 2
Instances == 1..NumInstances

\* An instance that is not inside save.
IdleProc == [pc |-> "idle", file |-> NoRequest.file, hash |-> 0, text |-> <<>>]

RECURSIVE IdleProcs(_)
IdleProcs(n) == IF n = 0 THEN <<>> ELSE Append(IdleProcs(n - 1), IdleProc)

\* What a sample document can be: a document with a table section, one
\* with short prose only, and one the backend cannot convert.
SampleContents ==
    {[fails |-> FALSE,
      markdown |-> <<Line("# Regras", TRUE, "Regras", FALSE, 8),
                     Line("| campo | regra |", FALSE, "| campo | regra |", TRUE, 17),
                     Line("|---|---|", FALSE, "|---|---|", TRUE, 9),
                     Line("| CPF | 11 digitos |", FALSE, "| CPF | 11 digitos |", TRUE, 20)>>],
     [fails |-> FALSE,
      markdown |-> <<Line("**Escopo**", TRUE, "Escopo", FALSE, 10),
                     Line("Cadastro de clientes.", FALSE, "Cadastro de clientes.", FALSE, 21)>>],
     [fails |-> TRUE, markdown |-> <<>>]}

\* The samples directory of an installation: one good sample.
InstalledCorpus ==
    [exists |-> TRUE,
     files |-> <<[name |-> "boa1", mtime |-> 1, fails |-> FALSE,
                  markdown |->
                      <<Line("# Regras", TRUE, "Regras", FALSE, 8),
                        Line("| campo | regra |", FALSE, "| campo | regra |", TRUE, 17),
                        Line("|---|---|", FALSE, "|---|---|", TRUE, 9),
                        Line("| CPF | 11 digitos |", FALSE, "| CPF | 11 digitos |", TRUE, 20)>>]>>]

\* Newest modification time of a sample.
MaxMtime == 2

Sample(name, mtime, content) ==
    [name |-> name, mtime |-> mtime, fails |-> content.fails,
     markdown |-> content.markdown]

\* The corpora: no directory, an empty one, and one or two samples in either
\* order of listing.
Corpora ==
    {NoCorpus, [exists |-> TRUE, files |-> <<>>]} \cup
    {[exists |-> TRUE, files |-> <<Sample(n, 1, k)>>] :
        n \in {"boa1", "boa2"}, k \in SampleContents} \cup
    {[exists |-> TRUE, files |-> <<Sample(n[1], 1, k1), Sample(n[2], 1, k2)>>] :
        n \in {<<"boa1", "boa2">>, <<"boa2", "boa1">>},
        k1 \in SampleContents, k2 \in SampleContents}

\* Most load_references calls followed.
MaxLoads == 3

\* Excerpts of 100, 600 and 2000 characters, as _extract_key_sections cuts
\* them from a section of four lines.
SectionExcerpts ==
    {Excerpt("Regras",
             <<Line("# Regras", TRUE, "Regras", FALSE, 8),
               Line("| campo | regra |", FALSE, "| campo | regra |", TRUE, 17),
               Line("|---|---|", FALSE, "|---|---|", TRUE, 9),
               Line("| ... |", FALSE, "| ... |", TRUE, n - 37)>>) :
        n \in {100, 600, 2400}}

\* Groups of one or two excerpts; lists of up to two groups.
SectionGroups ==
    {[source |-> "boa", excerpts |-> <<x>>] : x \in SectionExcerpts} \cup
    {[source |-> "boa", excerpts |-> <<x, y>>] :
        x \in SectionExcerpts, y \in SectionExcerpts}

SectionInputs ==
    [references : {<<>>} \cup {<<a>> : a \in SectionGroups}
                         \cup {<<a, b>> : a, b \in SectionGroups},
     max_excerpts : {0, 1, 2, 6},
     max_chars : {0, 450, 1000, 8000}]

\* The lines of the documents given to _extract_key_sections: two kinds
\* of heading, a table row, a short, a long and a very long line of prose.
LineKinds ==
    {Line("# Regras", TRUE, "Regras", FALSE, 8),
     Line("**Escopo**", TRUE, "Escopo", FALSE, 10),
     Line("| campo | regra |", FALSE, "| campo | regra |", TRUE, 17),
     Line("Cadastro de clientes.", FALSE, "Cadastro de clientes.", FALSE, 21),
     Line("O cadastro ...", FALSE, "O cadastro ...", FALSE, 120),
     Line("O processo ...", FALSE, "O processo ...", FALSE, 2100)}

\* Most lines in one document.
MaxLines == 5

RECURSIVE LineLists(_)
LineLists(n) ==
    IF n = 1 THEN {<<k>> : k \in LineKinds}
    ELSE LineLists(n - 1) \cup
         {Append(l, k) : l \in {x \in LineLists(n - 1) : Len(x) = n - 1},
                         k \in LineKinds}

\* Widths and heights given to analyze: around each of its thresholds.
Dims == {0, 1, 199, 200, 201, 1000, 1001, 5000}

\* The pictures a converted document can hold: the three the converter
\* model produces, one without image data and one whose image has no
\* usable size.
PictureKinds ==
    {ConvertPicture(0), ConvertPicture(1), ConvertPicture(2),
     Picture(FALSE, "object", 800, 600, <<>>),
     Picture(TRUE, "none", 800, 600, <<>>)}

\* Most pictures in one document.
MaxPictures == 3

RECURSIVE PictureLists(_)
PictureLists(n) ==
    IF n = 0 THEN {<<>>}
    ELSE PictureLists(n - 1) \cup
         {Append(l, k) : l \in {x \in PictureLists(n - 1) : Len(x) = n - 1},
                         k \in PictureKinds}

\* What a corrupted cache file holds: a write cut short, or bytes that are
\* not UTF-8.
CorruptTexts(text) == {SubSeq(text, 1, 1), <<TBadUtf8>>}

(***************************************************************************)
(* Initial state                                                           *)
(***************************************************************************)
Init ==
    /\ store = << >>
    /\ dirExists = FALSE
    /\ enabled \in BOOLEAN
    /\ pc = "IDLE"
    /\ req = NoRequest
    /\ extraction = <<>>
    /\ cached = FALSE
    /\ prompt = <<>>
    /\ judge = NoJudge
    /\ parsed = <<>>
    /\ result = <<>>
    /\ error = ""
    /\ extracted = {}
    /\ call = NoCall
    /\ procs = IdleProcs(NumInstances)
    /\ dims = <<0, 0>>
    /\ analysis = <<>>
    /\ picturesIn = <<>>
    /\ picturesKept = <<>>
    /\ diagramsOut = <<>>
    /\ vlmInvoked = <<>>
    /\ corpus = InstalledCorpus
    /\ refCache = <<>>
    /\ loads = <<>>
    /\ loading = <<>>
    /\ sectionIn = NoSection
    /\ sectionOut = <<>>
    /\ markdownIn = <<>>
    /\ excerptsOut = <<>>
    /\ reply = <<>>
    /\ parseOut = <<>>

(***************************************************************************)
(* avaliar (cli.py): one request, stage by stage                           *)
(***************************************************************************)
\* A start of request that leaves the check of the format to the extractor.
StartRequestUnchecked ==
    /\ pc = "IDLE"
    /\ \E r \in Requests, configured \in BOOLEAN, exists \in BOOLEAN :
        /\ req' = r
        /\ IF ~configured THEN pc' = "ERROR" /\ error' = "config"
           ELSE IF ~exists THEN pc' = "ERROR" /\ error' = "missing"
           ELSE pc' = "CACHE_LOOKUP" /\ error' = ""
    /\ UNCHANGED <<cacheVars, extraction, cached, prompt, judge, parsed, result,
                   extracted, parserVars, procs, extractVars, refVars>>

\* Lines 133-147: a new request; configuration, file and format are checked.
StartRequest ==
    /\ pc = "IDLE"
    /\ \E r \in Requests, configured \in BOOLEAN, exists \in BOOLEAN :
        /\ req' = r
        /\ IF ~configured THEN pc' = "ERROR" /\ error' = "config"
           ELSE IF ~exists THEN pc' = "ERROR" /\ error' = "missing"
           ELSE IF Suffix(r.file.name) \notin {".docx", ".doc"}
                THEN pc' = "ERROR" /\ error' = "format"
           ELSE pc' = "CACHE_LOOKUP" /\ error' = ""
    /\ UNCHANGED <<cacheVars, extraction, cached, prompt, judge, parsed, result,
                   extracted, parserVars, procs, extractVars, refVars>>

\* Lines 149-155: the cache is queried unless --no-cache bypasses it.
CacheLookup ==
    /\ pc = "CACHE_LOOKUP"
    /\ LET g == CacheGet(store, enabled, req.file)
       IN  IF req.no_cache
           THEN /\ pc' = "EXTRACTING"
                /\ UNCHANGED <<store, dirExists, extraction, cached, error>>
           ELSE IF g.raised # "none"
           THEN /\ pc' = "ERROR"
                /\ error' = "cache_read"
                /\ dirExists' = (dirExists \/ enabled)
                /\ UNCHANGED <<store, extraction, cached>>
           ELSE /\ store' = g.store
                /\ dirExists' = (dirExists \/ enabled)
                /\ extraction' = g.value
                /\ cached' = (g.value # <<>>)
                /\ pc' = IF g.value # <<>> THEN "PROMPT_BUILDING" ELSE "EXTRACTING"
                /\ UNCHANGED error
    /\ UNCHANGED <<enabled, call, req, prompt, judge, parsed, result, extracted, parserVars, procs, extractVars, refVars>>

\* Lines 162-164 and 166-175: the extraction backend runs; a failure ends
\* the request.
Extract ==
    /\ pc = "EXTRACTING"
    /\ \E converts \in BOOLEAN, vlm \in VlmChoices(req.file) :
        IF converts
        THEN /\ extraction' = <<extract_to_dict(req.file, ~req.no_vision, vlm)>>
             /\ pc' = "STORING"
             /\ extracted' = IF enabled
                             THEN extracted \cup {_get_file_hash(req.file)}
                             ELSE extracted
             /\ UNCHANGED error
        ELSE /\ pc' = "ERROR"
             /\ error' = "extraction"
             /\ UNCHANGED <<extraction, extracted>>
    /\ UNCHANGED <<cacheVars, req, cached, prompt, judge, parsed, result, parserVars, procs, extractVars, refVars>>

\* Line 165: save_extraction(arquivo, extraction_dict)
StoreExtraction ==
    /\ pc = "STORING"
    /\ LET s == CacheSave(store, enabled, req.file, extraction[1])
       IN  /\ store' = s.store
           /\ extraction' = <<s.extraction>>
    /\ dirExists' = (dirExists \/ enabled)
    /\ pc' = "PROMPT_BUILDING"
    /\ UNCHANGED <<enabled, call, req, cached, prompt, judge, parsed, result,
                   error, extracted, parserVars, procs, extractVars, refVars>>

\* Lines 189-200 and evaluate lines 228-236: the evaluator is selected, the
\* payload validated and the prompts built.
BuildPrompt ==
    /\ pc = "PROMPT_BUILDING"
    /\ IF ~TipoSupported(req.tipo)
       THEN /\ pc' = "ERROR"
            /\ error' = "tipo"
            /\ UNCHANGED <<prompt, result, refCache>>
       ELSE IF ~validate_extraction(extraction[1])
       THEN /\ pc' = "DONE"
            /\ result' = <<evaluate(extraction[1], req.include_metadata, NoJudge).result>>
            /\ UNCHANGED <<prompt, error, refCache>>
       ELSE /\ pc' = "AWAITING_JUDGE"
            /\ prompt' = <<get_user_prompt(extraction[1])>>
            \* _get_reference_section (lines 162-180) loads the references
            /\ refCache' = load_references(corpus, refCache).cache
            /\ UNCHANGED <<result, error>>
    /\ UNCHANGED <<cacheVars, req, extraction, cached, judge, parsed, extracted,
                   parserVars, procs, extractVars, corpus, loads, loading,
                   sectionIn, sectionOut, markdownIn, excerptsOut>>

\* evaluate lines 240-307 and cli lines 202-214: the judge is called and its
\* reply parsed; an exception out of evaluate ends the request in ERROR.
AwaitJudge ==
    /\ pc = "AWAITING_JUDGE"
    /\ \E outcome \in JudgeOutcomes :
        \E ev \in {evaluate(extraction[1], req.include_metadata, outcome)} :
            /\ judge' = outcome
            /\ parsed' = ev.parsed
            /\ IF ev.raised # "none"
               THEN pc' = "ERROR" /\ error' = "evaluate" /\ UNCHANGED result
               ELSE pc' = "DONE" /\ result' = <<ev.result>> /\ UNCHANGED error
    /\ UNCHANGED <<cacheVars, req, extraction, cached, prompt, extracted, parserVars, procs, extractVars, refVars>>

\* Lines 207-214 and the typer.Exit raises: the result is printed and the
\* process ends; the next request starts from a fresh process.
Exit ==
    /\ pc \in {"DONE", "ERROR"}
    /\ pc' = "IDLE"
    /\ req' = NoRequest
    /\ extraction' = <<>>
    /\ cached' = FALSE
    /\ prompt' = <<>>
    /\ judge' = NoJudge
    /\ parsed' = <<>>
    /\ result' = <<>>
    /\ error' = ""
    /\ UNCHANGED <<cacheVars, extracted, parserVars, procs, extractVars, refVars>>

Next ==
    \/ StartRequest
    \/ CacheLookup
    \/ Extract
    \/ StoreExtraction
    \/ BuildPrompt
    \/ AwaitJudge
    \/ Exit

\* Requests served one after the other by the command-line tool.
Spec == Init /\ [][Next]_vars

(***************************************************************************)
(* The CacheManager on its own: calls of get, save and clear in any order, *)
(* and damage to the cache files from outside.                             *)
(***************************************************************************)
GetCall ==
    /\ \E f \in CacheFiles :
        LET g == CacheGet(store, enabled, f)
        IN  /\ store' = g.store
            /\ call' = [op |-> "get", file |-> f, payload |-> <<>>,
                        value |-> g.value, raised |-> g.raised, count |-> 0]
    /\ dirExists' = (dirExists \/ enabled)
    /\ UNCHANGED <<enabled, requestVars, parserVars, procs, extractVars, refVars>>

SaveCall ==
    /\ \E f \in CacheFiles, p \in Payloads :
        LET s == CacheSave(store, enabled, f, p)
        IN  /\ store' = s.store
            /\ call' = [op |-> "save", file |-> f, payload |-> <<p>>,
                        value |-> <<s.extraction>>, raised |-> "none",
                        count |-> 0]
    /\ dirExists' = (dirExists \/ enabled)
    /\ UNCHANGED <<enabled, requestVars, parserVars, procs, extractVars, refVars>>

\* limpar_cache (cli.py lines 217-222): CacheManager().clear()
ClearCall ==
    /\ LET c == CacheClear(store, dirExists)
       IN  /\ store' = c.store
           /\ call' = [op |-> "clear", file |-> NoRequest.file, payload |-> <<>>,
                       value |-> <<>>, raised |-> "none", count |-> c.count]
    /\ UNCHANGED <<dirExists, enabled, requestVars, parserVars, procs, extractVars, refVars>>

\* The environment damages a cache file.
CorruptEntry ==
    /\ \E h \in DOMAIN store :
        \E text \in CorruptTexts(store[h]) :
            /\ text # store[h]
            /\ store' = [store EXCEPT ![h] = text]
    /\ UNCHANGED <<dirExists, enabled, call, requestVars, parserVars, procs, extractVars, refVars>>

NextCache ==
    \/ GetCall
    \/ SaveCall
    \/ ClearCall
    \/ CorruptEntry

SpecCache == Init /\ [][NextCache]_vars

\* settings.cache_enabled is read when a CacheManager is built (line 28):
\* the operator changes the setting between two runs of the tool.
SetEnabled ==
    /\ enabled' = ~enabled
    /\ UNCHANGED <<store, dirExists, call, requestVars, parserVars, procs, extractVars, refVars>>

NextAdmin ==
    \/ NextCache
    \/ SetEnabled

\* The cache calls, with the cache switched on and off between them.
SpecAdmin == Init /\ [][NextAdmin]_vars

(***************************************************************************)
(* Several pipeline instances saving at the same time.  write_text opens   *)
(* the file, which truncates it, and then writes the text.                 *)
(***************************************************************************)
\* cli.py lines 163-165 and save lines 76-87: an instance has extracted its
\* file and enters save; the text to write is built.
BeginSaveOf(i, files) ==
    /\ procs[i].pc = "idle"
    /\ \E f \in files, v \in BOOLEAN :
        \E vlm \in VlmChoices(f) :
            \E s \in {CacheSave(<< >>, enabled, f, extract_to_dict(f, v, vlm))} :
                procs' = [procs EXCEPT ![i] =
                            IF enabled
                            THEN [pc |-> "opening", file |-> f,
                                  hash |-> _get_file_hash(f),
                                  text |-> s.store[_get_file_hash(f)]]
                            ELSE IdleProc]
    /\ dirExists' = (dirExists \/ enabled)
    /\ UNCHANGED <<store, enabled, call, requestVars, parserVars, extractVars, refVars>>

BeginSave(i) == BeginSaveOf(i, CacheFiles)

\* write_text, first half (line 89): the file is opened for writing and is
\* empty from then on.
OpenFile(i) ==
    /\ procs[i].pc = "opening"
    /\ store' = (procs[i].hash :> <<>>) @@ store
    /\ procs' = [procs EXCEPT ![i].pc = "writing"]
    /\ UNCHANGED <<dirExists, enabled, call, requestVars, parserVars, extractVars, refVars>>

\* write_text, second half (lines 89-92): the text is in the file the
\* instance opened. When that file was unlinked in the meantime
\* ("writing_unlinked") the text goes to a file that has no name any more.
WriteFile(i) ==
    /\ procs[i].pc \in {"writing", "writing_unlinked"}
    /\ store' = IF procs[i].pc = "writing"
                THEN (procs[i].hash :> procs[i].text) @@ store
                ELSE store
    /\ procs' = [procs EXCEPT ![i] = IdleProc]
    /\ UNCHANGED <<dirExists, enabled, call, requestVars, parserVars, extractVars, refVars>>

NextConc ==
    \E i \in Instances :
        \/ BeginSave(i)
        \/ OpenFile(i)
        \/ WriteFile(i)

SpecConc == Init /\ [][NextConc]_vars

(***************************************************************************)
(* CacheManager.get in one instance while other instances are saving.      *)
(* get tests the path, reads and decodes the file, and unlinks it when     *)
(* the decoding fails: three steps other instances can run between.        *)
(***************************************************************************)
\* One content under its two names.
RaceFiles == {f \in CacheFiles : f.bytes = <<0>>}

\* What get hands back to its caller.
GetReturns(f, value, raised) ==
    [op |-> "get", file |-> f, payload |-> <<>>, value |-> value,
     raised |-> raised, count |-> 0]

\* get lines 53-59: the cache is on and cache_path.exists() is tested;
\* without a file get returns None (line 66).
BeginGet(i) ==
    /\ procs[i].pc = "idle"
    /\ enabled
    /\ \E f \in RaceFiles :
        IF _get_file_hash(f) \in DOMAIN store
        THEN /\ procs' = [procs EXCEPT ![i] =
                            [pc |-> "reading", file |-> f,
                             hash |-> _get_file_hash(f), text |-> <<>>]]
             /\ call' = call
        ELSE /\ procs' = procs
             /\ call' = GetReturns(f, <<>>, "none")
    /\ dirExists' = TRUE
    /\ UNCHANGED <<store, enabled, requestVars, parserVars, extractVars, refVars>>

\* get line 60: read_text of the file as it is now, then json.loads. A file
\* that is gone raises FileNotFoundError, an OSError.
ReadFile(i) ==
    /\ procs[i].pc = "reading"
    /\ \E r \in {IF procs[i].hash \in DOMAIN store
                  THEN ReadJson(store[procs[i].hash])
                  ELSE [exc |-> "OSError", value |-> <<>>]} :
        IF r.exc \in GetCaught
        THEN /\ procs' = [procs EXCEPT ![i].pc = "unlinking"]
             /\ call' = call
        ELSE /\ procs' = [procs EXCEPT ![i] = IdleProc]
             /\ call' = GetReturns(procs[i].file, r.value, r.exc)
    /\ UNCHANGED <<store, dirExists, enabled, requestVars, parserVars,
                   extractVars, refVars>>

\* get lines 61-64: cache_path.unlink(missing_ok=True), and None returned.
\* An instance that has the file open for writing keeps writing to it.
UnlinkFile(i) ==
    /\ procs[i].pc = "unlinking"
    /\ store' = Remove(store, procs[i].hash)
    /\ \E unlinked \in {{j \in Instances :
                            /\ procs[j].pc = "writing"
                            /\ procs[j].hash = procs[i].hash
                            /\ procs[i].hash \in DOMAIN store}} :
        procs' = [[j \in Instances |->
                    IF j \in unlinked
                    THEN [procs[j] EXCEPT !.pc = "writing_unlinked"]
                    ELSE procs[j]] EXCEPT ![i] = IdleProc]
    /\ call' = GetReturns(procs[i].file, <<>>, "none")
    /\ UNCHANGED <<dirExists, enabled, requestVars, parserVars, extractVars,
                   refVars>>

NextRace ==
    \E i \in Instances :
        \/ BeginSaveOf(i, RaceFiles)
        \/ OpenFile(i)
        \/ WriteFile(i)
        \/ BeginGet(i)
        \/ ReadFile(i)
        \/ UnlinkFile(i)

SpecRace == Init /\ [][NextRace]_vars

(***************************************************************************)
(* ImageFilter.analyze on its own: one pair of dimensions, analyzed once.  *)
(***************************************************************************)
InitAnalyze ==
    /\ store = << >>
    /\ dirExists = FALSE
    /\ enabled = TRUE
    /\ pc = "IDLE"
    /\ req = NoRequest
    /\ extraction = <<>>
    /\ cached = FALSE
    /\ prompt = <<>>
    /\ judge = NoJudge
    /\ parsed = <<>>
    /\ result = <<>>
    /\ error = ""
    /\ extracted = {}
    /\ call = NoCall
    /\ procs = IdleProcs(NumInstances)
    /\ reply = <<>>
    /\ parseOut = <<>>
    /\ dims \in Dims \X Dims
    /\ analysis = <<>>
    /\ picturesIn = <<>>
    /\ picturesKept = <<>>
    /\ diagramsOut = <<>>
    /\ vlmInvoked = <<>>
    /\ corpus = NoCorpus
    /\ refCache = <<>>
    /\ loads = <<>>
    /\ loading = <<>>
    /\ sectionIn = NoSection
    /\ sectionOut = <<>>
    /\ markdownIn = <<>>
    /\ excerptsOut = <<>>

Analyze ==
    /\ analysis = <<>>
    /\ analysis' = <<analyze(dims[1], dims[2])>>
    /\ UNCHANGED <<cacheVars, requestVars, parserVars, procs, dims,
                   picturesIn, picturesKept, diagramsOut, vlmInvoked, refVars>>

NextAnalyze == Analyze

SpecAnalyze == InitAnalyze /\ [][NextAnalyze]_vars

(***************************************************************************)
(* DoclingExtractor.extract from the converted document on: the pictures   *)
(* are filtered, then described.                                           *)
(***************************************************************************)
InitExtract ==
    /\ store = << >>
    /\ dirExists = FALSE
    /\ enabled = TRUE
    /\ pc = "IDLE"
    /\ req = NoRequest
    /\ extraction = <<>>
    /\ cached = FALSE
    /\ prompt = <<>>
    /\ judge = NoJudge
    /\ parsed = <<>>
    /\ result = <<>>
    /\ error = ""
    /\ extracted = {}
    /\ call = NoCall
    /\ procs = IdleProcs(NumInstances)
    /\ reply = <<>>
    /\ parseOut = <<>>
    /\ dims = <<0, 0>>
    /\ analysis = <<>>
    /\ picturesIn \in PictureLists(MaxPictures)
    /\ picturesKept = <<>>
    /\ diagramsOut = <<>>
    /\ vlmInvoked = <<>>
    /\ corpus = NoCorpus
    /\ refCache = <<>>
    /\ loads = <<>>
    /\ loading = <<>>
    /\ sectionIn = NoSection
    /\ sectionOut = <<>>
    /\ markdownIn = <<>>
    /\ excerptsOut = <<>>

\* Lines 187-188
FilterPictures ==
    /\ picturesKept = <<>>
    /\ picturesKept' = <<filter_pictures(picturesIn)>>
    /\ UNCHANGED <<cacheVars, requestVars, parserVars, procs, dims, analysis,
                   picturesIn, diagramsOut, vlmInvoked, refVars>>

\* Lines 190-215: the description loop, with or without vision.
DescribeDiagrams ==
    /\ picturesKept # <<>>
    /\ diagramsOut = <<>>
    /\ \E enable_vision \in BOOLEAN, has_client \in BOOLEAN :
        \E vlm \in [1..Len(picturesKept[1]) -> VlmAnswers] :
            /\ ~has_client => \A i \in DOMAIN vlm : vlm[i] = <<>>
            /\ diagramsOut' = <<IF enable_vision /\ SettingsVisionEnabled
                                THEN Diagrams(picturesKept[1], 0, vlm)
                                ELSE <<>>>>
            /\ vlmInvoked' = <<[vision |-> enable_vision /\ SettingsVisionEnabled,
                                 calls |-> VlmCalls(picturesKept[1],
                                        enable_vision /\ SettingsVisionEnabled,
                                        has_client)]>>
    /\ UNCHANGED <<cacheVars, requestVars, parserVars, procs, dims, analysis,
                   picturesIn, picturesKept, refVars>>

NextExtract ==
    \/ FilterPictures
    \/ DescribeDiagrams

SpecExtract == InitExtract /\ [][NextExtract]_vars

(***************************************************************************)
(* The ReferenceManager on its own: load_references calls, with the        *)
(* samples rewritten between them.                                         *)
(***************************************************************************)
InitRefs ==
    /\ store = << >>
    /\ dirExists = FALSE
    /\ enabled = TRUE
    /\ pc = "IDLE"
    /\ req = NoRequest
    /\ extraction = <<>>
    /\ cached = FALSE
    /\ prompt = <<>>
    /\ judge = NoJudge
    /\ parsed = <<>>
    /\ result = <<>>
    /\ error = ""
    /\ extracted = {}
    /\ call = NoCall
    /\ procs = IdleProcs(NumInstances)
    /\ reply = <<>>
    /\ parseOut = <<>>
    /\ dims = <<0, 0>>
    /\ analysis = <<>>
    /\ picturesIn = <<>>
    /\ picturesKept = <<>>
    /\ diagramsOut = <<>>
    /\ vlmInvoked = <<>>
    /\ corpus \in Corpora
    /\ refCache = <<>>
    /\ loads = <<>>
    /\ loading = <<>>
    /\ sectionIn = NoSection
    /\ sectionOut = <<>>
    /\ markdownIn = <<>>
    /\ excerptsOut = <<>>

\* One load_references call; loads records the corpus it ran on and what
\* it did.
LoadReferences ==
    /\ Len(loads) < MaxLoads
    /\ \E out \in {load_references(corpus, refCache)} :
        /\ refCache' = out.cache
        /\ loads' = Append(loads, [corpus |-> corpus, raised |-> out.raised,
                                    returned |-> out.returned,
                                    invoked |-> out.invoked])
    /\ UNCHANGED <<cacheVars, requestVars, parserVars, procs, extractVars,
                   corpus, loading, sectionIn, sectionOut, markdownIn,
                   excerptsOut>>

\* Somebody rewrites a sample: new content and a newer modification time.
TouchSample ==
    /\ \E i \in 1..Len(corpus.files), k \in SampleContents :
        /\ corpus.files[i].mtime < MaxMtime
        /\ corpus' = [corpus EXCEPT !.files[i] =
                          Sample(@.name, @.mtime + 1, k)]
    /\ UNCHANGED <<cacheVars, requestVars, parserVars, procs, extractVars,
                   refCache, loads, loading, sectionIn, sectionOut, markdownIn,
                   excerptsOut>>

NextRefs ==
    \/ LoadReferences
    \/ TouchSample

SpecRefs == InitRefs /\ [][NextRefs]_vars

(***************************************************************************)
(* load_references step by step, with the samples changing meanwhile.      *)
(***************************************************************************)
\* A finished call, as loads records it.
LoadRecord(c, returned, invoked) ==
    [corpus |-> c, raised |-> FALSE, returned |-> returned, invoked |-> invoked]

\* Lines 155-192: the cache is consulted and, on a miss, the samples are
\* extracted as they are now. A hit, a missing directory and a directory
\* without samples end the call here.
BeginLoad ==
    /\ loading = <<>>
    /\ Len(loads) < MaxLoads
    /\ \E hit \in {_load_cached_references(refCache, corpus)} :
        IF hit # <<>>
        THEN /\ loads' = Append(loads, LoadRecord(corpus, hit[1].references, 0))
             /\ loading' = loading
        ELSE IF ~corpus.exists \/ corpus.files = <<>>
        THEN /\ loads' = Append(loads, LoadRecord(corpus, <<>>, 0))
             /\ loading' = loading
        ELSE /\ loads' = loads
             /\ loading' = <<[corpus |-> corpus,
                              references |-> ExtractSamples(corpus.files)]>>
    /\ UNCHANGED <<cacheVars, requestVars, parserVars, procs, extractVars,
                   corpus, refCache, sectionIn, sectionOut, markdownIn,
                   excerptsOut>>

\* Lines 198-203: _save_to_cache when there are groups, with the hash
\* _get_samples_hash computes at this moment (line 83), and the return.
FinishLoad ==
    /\ loading # <<>>
    /\ refCache' = IF loading[1].references # <<>>
                   THEN <<[hash |-> _get_samples_hash(corpus), mit_type |-> "mit41",
                           references |-> loading[1].references]>>
                   ELSE refCache
    /\ loads' = Append(loads, LoadRecord(loading[1].corpus, loading[1].references,
                                         Len(loading[1].corpus.files)))
    /\ loading' = <<>>
    /\ UNCHANGED <<cacheVars, requestVars, parserVars, procs, extractVars,
                   corpus, sectionIn, sectionOut, markdownIn, excerptsOut>>

NextLoad ==
    \/ BeginLoad
    \/ FinishLoad
    \/ TouchSample

SpecLoad == InitRefs /\ [][NextLoad]_vars

(***************************************************************************)
(* get_reference_prompt_section on its own: one list of groups, rendered   *)
(* once.                                                                   *)
(***************************************************************************)
InitSection ==
    /\ store = << >>
    /\ dirExists = FALSE
    /\ enabled = TRUE
    /\ pc = "IDLE"
    /\ req = NoRequest
    /\ extraction = <<>>
    /\ cached = FALSE
    /\ prompt = <<>>
    /\ judge = NoJudge
    /\ parsed = <<>>
    /\ result = <<>>
    /\ error = ""
    /\ extracted = {}
    /\ call = NoCall
    /\ procs = IdleProcs(NumInstances)
    /\ reply = <<>>
    /\ parseOut = <<>>
    /\ dims = <<0, 0>>
    /\ analysis = <<>>
    /\ picturesIn = <<>>
    /\ picturesKept = <<>>
    /\ diagramsOut = <<>>
    /\ vlmInvoked = <<>>
    /\ corpus = NoCorpus
    /\ refCache = <<>>
    /\ loads = <<>>
    /\ loading = <<>>
    /\ sectionIn \in SectionInputs
    /\ sectionOut = <<>>
    /\ markdownIn = <<>>
    /\ excerptsOut = <<>>

RenderSection ==
    /\ sectionOut = <<>>
    /\ sectionOut' = <<get_reference_prompt_section(sectionIn.references,
                                                    sectionIn.max_excerpts,
                                                    sectionIn.max_chars)>>
    /\ UNCHANGED <<cacheVars, requestVars, parserVars, procs, extractVars,
                   corpus, refCache, loads, loading, sectionIn, markdownIn,
                   excerptsOut>>

NextSection == RenderSection

SpecSection == InitSection /\ [][NextSection]_vars

(***************************************************************************)
(* _extract_key_sections on its own: one document, cut into excerpts once. *)
(***************************************************************************)
InitExcerpts ==
    /\ store = << >>
    /\ dirExists = FALSE
    /\ enabled = TRUE
    /\ pc = "IDLE"
    /\ req = NoRequest
    /\ extraction = <<>>
    /\ cached = FALSE
    /\ prompt = <<>>
    /\ judge = NoJudge
    /\ parsed = <<>>
    /\ result = <<>>
    /\ error = ""
    /\ extracted = {}
    /\ call = NoCall
    /\ procs = IdleProcs(NumInstances)
    /\ reply = <<>>
    /\ parseOut = <<>>
    /\ dims = <<0, 0>>
    /\ analysis = <<>>
    /\ picturesIn = <<>>
    /\ picturesKept = <<>>
    /\ diagramsOut = <<>>
    /\ vlmInvoked = <<>>
    /\ corpus = NoCorpus
    /\ refCache = <<>>
    /\ loads = <<>>
    /\ loading = <<>>
    /\ sectionIn = NoSection
    /\ sectionOut = <<>>
    /\ markdownIn \in LineLists(MaxLines)
    /\ excerptsOut = <<>>

ExtractKeySections ==
    /\ excerptsOut = <<>>
    /\ excerptsOut' = <<_extract_key_sections(markdownIn, "boa1").excerpts>>
    /\ UNCHANGED <<cacheVars, requestVars, parserVars, procs, extractVars,
                   corpus, refCache, loads, loading, sectionIn, sectionOut,
                   markdownIn>>

NextExcerpts == ExtractKeySections

SpecExcerpts == InitExcerpts /\ [][NextExcerpts]_vars

(***************************************************************************)
(* The parser on its own: one raw reply, parsed once.                      *)
(***************************************************************************)
InitParse ==
    /\ store = << >>
    /\ dirExists = FALSE
    /\ enabled = TRUE
    /\ pc = "IDLE"
    /\ req = NoRequest
    /\ extraction = <<>>
    /\ cached = FALSE
    /\ prompt = <<>>
    /\ judge = NoJudge
    /\ parsed = <<>>
    /\ result = <<>>
    /\ error = ""
    /\ extracted = {}
    /\ call = NoCall
    /\ procs = IdleProcs(NumInstances)
    /\ dims = <<0, 0>>
    /\ analysis = <<>>
    /\ picturesIn = <<>>
    /\ picturesKept = <<>>
    /\ diagramsOut = <<>>
    /\ vlmInvoked = <<>>
    /\ corpus = NoCorpus
    /\ refCache = <<>>
    /\ loads = <<>>
    /\ loading = <<>>
    /\ sectionIn = NoSection
    /\ sectionOut = <<>>
    /\ markdownIn = <<>>
    /\ excerptsOut = <<>>
    /\ reply \in Replies
    /\ parseOut = <<>>

Parse ==
    /\ parseOut = <<>>
    /\ parseOut' = <<_parse_response(reply)>>
    /\ UNCHANGED <<cacheVars, requestVars, reply, procs, extractVars, refVars>>

NextParse == Parse

SpecParse == InitParse /\ [][NextParse]_vars

(***************************************************************************)
(* Properties of the CacheManager (SpecCache)                              *)
(***************************************************************************)
\* C1: with caching enabled, after save(f, p) a get on every file with f's
\* bytes, whatever its name, returns p (with the cache metadata save adds),
\* and the save changes get's answer for no file with other bytes; a get
\* leaves every decodable entry as it is; and the entry a get returns was
\* saved under the bytes of the file asked for.
C1_RoundTrip ==
    [][/\ (SaveCall /\ enabled) =>
            \A g \in CacheFiles :
                IF g.bytes = call'.file.bytes
                THEN /\ CacheGet(store', enabled, g).raised = "none"
                     /\ CacheGet(store', enabled, g).value = call'.value
                     /\ call'.value[1].markdown = call'.payload[1].markdown
                     /\ call'.value[1].diagrams = call'.payload[1].diagrams
                     /\ call'.value[1].metadata = call'.payload[1].metadata
                     /\ call'.value[1]._cache_metadata[1].source_file = call'.file.name
                ELSE CacheGet(store', enabled, g).value
                        = CacheGet(store, enabled, g).value
       /\ GetCall =>
            \A g \in CacheFiles :
                CacheGet(store, enabled, g).value # <<>>
                    => CacheGet(store', enabled, g).value
                          = CacheGet(store, enabled, g).value
       /\ (GetCall /\ call'.value # <<>>) =>
            /\ call'.value = CacheGet(store, enabled, call'.file).value
            /\ call'.value[1]._cache_metadata[1].file_hash
                  = Sha256(0, call'.file.bytes)]_vars

\* A get answered with an entry that was saved under another file name.
C1_HitUnderOtherName ==
    /\ enabled
    /\ call.op = "get"
    /\ call.value # <<>>
    /\ call.value[1]._cache_metadata[1].source_file # call.file.name
    /\ call.value[1].diagrams # <<>>

\* C2: a get on a file whose stored entry cannot be decoded returns absent
\* without raising and removes that entry; the entries stored for other
\* content stay as they are.
C2_SelfHeals ==
    [][\A f \in CacheFiles :
        (/\ GetCall
         /\ call'.file = f
         /\ enabled
         /\ _get_file_hash(f) \in DOMAIN store
         /\ ReadJson(store[_get_file_hash(f)]).exc # "none")
        => /\ call'.raised = "none"
           /\ call'.value = <<>>
           /\ _get_file_hash(f) \notin DOMAIN store'
           /\ \A k \in DOMAIN store \ {_get_file_hash(f)} :
                k \in DOMAIN store' /\ store'[k] = store[k]]_vars

\* C10: clear() on a store of N entries removes them all and returns N (0
\* when the directory is empty or was never created); afterwards get is
\* absent for every file, and an absent entry comes back only by a save for
\* that content.
C10_ClearReturnsCount ==
    [][/\ ~dirExists => DOMAIN store = {}
       /\ ClearCall =>
            /\ call'.count = Cardinality(DOMAIN store)
            /\ DOMAIN store' = {}
            /\ \A g \in CacheFiles :
                /\ CacheGet(store', enabled, g).raised = "none"
                /\ CacheGet(store', enabled, g).value = <<>>
       /\ \A g \in CacheFiles :
            (/\ CacheGet(store, enabled, g).value = <<>>
             /\ CacheGet(store', enabled, g).value # <<>>)
            => SaveCall /\ call'.file.bytes = g.bytes]_vars

\* A clear that removed two entries.
C10_ClearedTwo ==
    /\ call.op = "clear"
    /\ call.count = 2
    /\ DOMAIN store = {}

\* C11: while caching is disabled every cache operation is a no-op: get
\* returns absent, save writes nothing, and no call of get, save or clear
\* changes the persisted store.
C11_DisabledNoOp ==
    [][(~enabled /\ (GetCall \/ SaveCall \/ ClearCall)) =>
            /\ store' = store
            /\ call'.op = "get" => call'.value = <<>>]_vars

\* C12: instances that save at the same time for one content hash write
\* the same text, so the entry does not depend on which write lands last;
\* and a write for one hash leaves the entries of the other hashes alone.
C12_SameEntry ==
    [][/\ \A i, j \in Instances :
            (/\ procs[i].pc # "idle"
             /\ procs[j].pc # "idle"
             /\ procs[i].hash = procs[j].hash)
            => procs[i].text = procs[j].text
       /\ \A i \in Instances :
            (procs[i].pc # "idle" /\ procs'[i].pc # procs[i].pc) =>
                \A k \in DOMAIN store \ {procs[i].hash} :
                    k \in DOMAIN store' /\ store'[k] = store[k]]_vars

\* C28: with a get running while other instances save the same content,
\* no step removes an entry from the store, no get takes the file of a save
\* in progress for a corrupt one, a get returns without raising, and the
\* entry is in the store when a save has finished.
C28_GetSparesSave ==
    [][/\ \A h \in DOMAIN store : h \in DOMAIN store'
       /\ \A i \in Instances :
            /\ procs'[i].pc # "unlinking"
            /\ (procs[i].pc \in {"writing", "writing_unlinked"}
                    /\ procs'[i].pc = "idle")
                => procs[i].hash \in DOMAIN store'
       /\ (call' # call /\ call'.op = "get") => call'.raised = "none"]_vars

\* C29: the hash a load writes into the cache is the hash of the corpus
\* its excerpts were extracted from, also when a sample changes while the
\* load runs; and every load that returns groups returns the groups of the
\* corpus it was called on.
C29_HashOfExtractedCorpus ==
    [][/\ (loading # <<>> /\ loading' = <<>> /\ loading[1].references # <<>>) =>
            /\ refCache'[1].references = ExtractSamples(loading[1].corpus.files)
            /\ refCache'[1].hash = _get_samples_hash(loading[1].corpus)
       /\ \A k \in 1..Len(loads') :
            loads'[k].returned # <<>> =>
                loads'[k].returned = ExtractSamples(loads'[k].corpus.files)]_vars

(***************************************************************************)
(* Properties of the parser (SpecParse)                                    *)
(***************************************************************************)
\* C3: _parse_response never raises; for every reply that is not a JSON
\* object with a numeric score and a list of string recommendations it
\* returns score 0.0 with the one recommendation that the format was not
\* recognized.
C3_NeverRaises ==
    parseOut # <<>> =>
        LET loaded == JsonLoads(StripFences(reply))
            wellTyped ==
                /\ loaded.exc = "none"
                /\ loaded.value.kind = "object"
                /\ loaded.value.score.t = "num"
                /\ loaded.value.recs.t = "list"
                /\ \A i \in 1..Len(loaded.value.recs.items) :
                      loaded.value.recs.items[i].t = "str"
        IN  /\ parseOut[1].raised = "none"
            /\ ~wellTyped => parseOut[1].result = FormatNotRecognized

\* C13: for every decodable reply the result's score is the reply's score
\* clamped into [0.0, 10.0] and then rounded to one decimal place, a half
\* going up (7.35 gives 7.4); and no parsed score is outside [0.0, 10.0].
C13_ClampThenRound ==
    (parseOut # <<>> /\ parseOut[1].raised = "none") =>
        LET loaded == JsonLoads(StripFences(reply))
            decodable ==
                /\ loaded.exc = "none"
                /\ loaded.value.kind = "object"
                /\ ToFloat(loaded.value.score).exc = "none"
            hundredths == ToFloat(loaded.value.score).v
            clamped == IF hundredths < 0 THEN 0
                       ELSE IF hundredths > 1000 THEN 1000 ELSE hundredths
        IN  /\ ScoreInRange(parseOut[1].result)
            /\ decodable => parseOut[1].result.score = (clamped + 5) \div 10

\* C14: for every decodable reply the parsed recommendations are the
\* reply's recommendations in their order, each trimmed of leading and
\* trailing whitespace, the empty and blank ones dropped; a value that is
\* not a list counts as the one-element list of its string form.
C14_TrimmedRecommendations ==
    (parseOut # <<>> /\ parseOut[1].raised = "none") =>
        LET loaded == JsonLoads(StripFences(reply))
            decodable ==
                /\ loaded.exc = "none"
                /\ loaded.value.kind = "object"
                /\ ToFloat(loaded.value.score).exc = "none"
            items == RecsToList(loaded.value.recs)
            kept == {i \in 1..Len(items) :
                        items[i].truthy /\ Strip(items[i].s) # <<>>}
            nth(i) == CHOOSE k \in kept :
                        Cardinality({j \in kept : j <= k}) = i
            out == parseOut[1].result.recommendations
        IN  decodable =>
                /\ Len(out) = Cardinality(kept)
                /\ \A i \in 1..Len(out) : out[i] = Strip(items[nth(i)].s)

\* C15: wrapping a reply body in a code fence, generic or tagged with json
\* or with another language, does not change what the parser does with it.
C15_FenceTransparent ==
    (/\ parseOut # <<>>
     /\ parseOut[1].raised = "none"
     /\ reply \in {<<b>> : b \in BodyAtoms}) =>
        \A open \in Openers \ {<<>>} :
            _parse_response(open \o <<"\n">> \o reply \o <<"\n", Fence>>)
                = parseOut[1]

(***************************************************************************)
(* Properties of a request (Spec)                                          *)
(***************************************************************************)
\* C4: once the extraction payload is available the request never aborts:
\* whatever the judge does it ends in DONE with a result whose score is in
\* [0.0, 10.0]; only input errors and extraction failures end in ERROR.
C4_NeverAborts ==
    /\ pc = "ERROR" => error \in {"config", "missing", "format", "tipo", "extraction"}
    /\ pc = "DONE" => result # <<>> /\ ScoreInRange(result[1])

\* C5: when the judge response has finish_reason "length", evaluate returns
\* score 0.0 with the single recommendation that names the token limit, and
\* the content is not handed to the parser, whatever it is.
C5_Truncated ==
    (judge.kind = "response" /\ judge.finish_reason = "length") =>
        /\ pc = "DONE"
        /\ result # <<>>
        /\ result[1].score = 0
        /\ result[1].recommendations = <<MsgTruncated>>
        /\ parsed = <<>>

\* A truncated response whose content the parser would raise on.
C5_TruncatedUnparsable ==
    /\ pc = "DONE"
    /\ judge.finish_reason = "length"
    /\ judge.content = <<"[1, 2]">>
    /\ _parse_response(judge.content).raised # "none"

\* C6: when the judge call fails otherwise (backend error, timeout, another
\* exception), evaluate returns score 0.0 whose only recommendation carries
\* the failure's description, and no exception leaves evaluate.
C6_JudgeFailure ==
    judge.kind \in {"DTAError", "Exception"} =>
        /\ pc = "DONE"
        /\ result # <<>>
        /\ result[1].score = 0
        /\ Len(result[1].recommendations) = 1
        /\ Len(result[1].recommendations[1]) = 2
        /\ result[1].recommendations[1][2] = judge.description
        /\ parsed = <<>>

\* A request whose judge call timed out.
C6_JudgeTimedOut ==
    /\ pc = "DONE"
    /\ judge.kind = "Exception"
    /\ judge.description = "Request timed out."

\* C7: with caching enabled and not bypassed, the extraction backend is not
\* invoked for a content that an earlier request has extracted with
\* success: extraction happens at most once per distinct content.
C7_NoRedundantExtraction ==
    [][(/\ pc = "EXTRACTING"
        /\ pc' # "EXTRACTING"
        /\ enabled
        /\ ~req.no_cache)
       => _get_file_hash(req.file) \notin extracted]_vars

\* A later request for an extracted content, under another file name, that
\* goes on to prompt building with the cached payload.
C7_ServedFromCache ==
    /\ pc = "PROMPT_BUILDING"
    /\ cached
    /\ ~req.no_cache
    /\ _get_file_hash(req.file) \in extracted
    /\ extraction[1]._cache_metadata[1].source_file # req.file.name

\* C8: on a cache miss with caching enabled, the extraction is in the cache
\* from the moment prompt building starts, and stays there when a later
\* stage fails; a failed extraction stores nothing, and the request ends in
\* ERROR without a result.
C8_StoredBeforePrompt ==
    [][/\ (/\ enabled
           /\ ~cached'
           /\ \/ pc' \in {"PROMPT_BUILDING", "AWAITING_JUDGE", "DONE"}
              \/ pc' = "ERROR" /\ error' \in {"tipo", "evaluate"})
          => /\ extraction' # <<>>
             /\ CacheGet(store', enabled, req'.file).value = extraction'
       /\ (pc = "EXTRACTING" /\ pc' = "ERROR")
          => /\ store' = store
             /\ error' = "extraction"
             /\ extraction' = <<>>
             /\ result' = <<>>]_vars

\* A freshly extracted request that failed after the judge call, its
\* extraction being in the cache.
C8_StoredThoughFailed ==
    /\ enabled
    /\ ~cached
    /\ pc = "ERROR"
    /\ error = "evaluate"
    /\ _get_file_hash(req.file) \in DOMAIN store

\* C9: the prompt built after a cache hit is a prompt that a fresh
\* extraction for the same request (same content, same vision setting)
\* produces.
C9_SamePrompt ==
    (cached /\ prompt # <<>>) =>
        \E vlm \in VlmChoices(req.file) :
            prompt = <<get_user_prompt(
                         extract_to_dict(req.file, ~req.no_vision, vlm))>>


(***************************************************************************)
(* Properties of the image filter and of the diagram descriptions          *)
(***************************************************************************)
\* C16: analyze(width, height) answers, for all non-negative integers, what
\* the reference procedure answers: the checks width < 200, height < 200,
\* width * height < 40000, ratio < 0.2, ratio > 5.0 are made in this order,
\* the first one that fails rejects with the reason naming its bound, and
\* the image is accepted otherwise; a height of 0 gives the ratio 0; the
\* accepted inputs are exactly those within all five bounds.
C16_ReferenceProcedure ==
    analysis # <<>> =>
        LET w == dims[1]
            h == dims[2]
            a == analysis[1]
            expected ==
                CASE w < 200 -> "width"
                  [] w >= 200 /\ h < 200 -> "height"
                  [] w >= 200 /\ h >= 200 /\ w * h < 40000 -> "area"
                  [] w >= 200 /\ h >= 200 /\ w * h >= 40000 /\ 5 * w < h
                        -> "aspect_min"
                  [] w >= 200 /\ h >= 200 /\ w * h >= 40000 /\ 5 * w >= h
                        /\ w > 5 * h -> "aspect_max"
                  [] OTHER -> "ok"
        IN  /\ a.reason = expected
            /\ a.is_relevant <=> (expected = "ok")
            /\ a.is_relevant <=>
                    (/\ w >= 200 /\ h >= 200 /\ w * h >= 40000
                     /\ 5 * w >= h /\ w <= 5 * h)
            /\ a.width = w /\ a.height = h /\ a.area = w * h
            /\ h = 0 => (a.aspect_ratio[1] = 0 /\ ~a.is_relevant)
            /\ h > 0 => a.aspect_ratio[1] * h = w * a.aspect_ratio[2]

\* A tall image exactly on the lower ratio bound was accepted.
C16_AcceptedOnBound ==
    /\ analysis # <<>>
    /\ dims = <<200, 1000>>
    /\ analysis[1].is_relevant

C18_ContiguousIndices ==
    diagramsOut # <<>> =>
        \A j \in 1..Len(diagramsOut[1]) : diagramsOut[1][j].index = j - 1

\* C26: in an extraction, the description the backend attached to a picture
\* that passed the filter is the description of its diagram and the vision
\* model is not called for that picture; the vision model is called only
\* with vision enabled, only for pictures that passed the filter and only
\* for those with no attached description.
C26_AttachedDescriptionUsed ==
    (diagramsOut # <<>> /\ vlmInvoked # <<>>) =>
        LET relevant == picturesKept[1]
            diagrams == diagramsOut[1]
        IN  /\ \A i \in 1..Len(relevant) :
                    relevant[i].description # <<>> =>
                        /\ (i - 1) \notin vlmInvoked[1].calls
                        /\ \E j \in 1..Len(diagrams) :
                                /\ diagrams[j].index = i - 1
                                /\ diagrams[j].description = relevant[i].description
            /\ \A k \in vlmInvoked[1].calls :
                    /\ k + 1 \in 1..Len(relevant)
                    /\ relevant[k + 1].description = <<>>
                    /\ vlmInvoked[1].vision

(***************************************************************************)
(* Properties of the ReferenceManager (SpecRefs)                           *)
(***************************************************************************)
\* C19: of two consecutive load_references calls made on the same corpus,
\* the second makes no call of the extraction backend, both together make
\* at most one call per sample, and both return the same groups.
C19_SecondLoadFromCache ==
    \A k \in 1..(Len(loads) - 1) :
        loads[k].corpus = loads[k + 1].corpus =>
            /\ loads[k + 1].invoked = 0
            /\ loads[k].invoked + loads[k + 1].invoked
                    <= Len(loads[k].corpus.files)
            /\ loads[k + 1].returned = loads[k].returned

\* C24: a load returns the cached groups only when the hash stored with
\* them is the hash of the corpus as it is; otherwise (no cache file, or
\* another hash) it extracts every sample again and leaves the cache
\* holding the hash of the corpus with the groups just extracted.
C24_CacheFollowsCorpus ==
    [][loads' # loads =>
        LET last == loads'[Len(loads')]
            hit == /\ refCache # <<>>
                   /\ refCache[1].hash = _get_samples_hash(corpus)
        IN  IF hit
            THEN /\ last.invoked = 0
                 /\ last.returned = refCache[1].references
                 /\ refCache' = refCache
            ELSE corpus.files # <<>> =>
                    /\ last.invoked = Len(corpus.files)
                    /\ refCache' # <<>>
                    /\ refCache'[1].hash = _get_samples_hash(corpus)
                    /\ refCache'[1].references = last.returned]_vars

C21_WithinBudget ==
    sectionOut # <<>> =>
        /\ Len(sectionOut[1].entries) <= sectionIn.max_excerpts
        /\ sectionOut[1].total_chars <= sectionIn.max_chars
        /\ sectionOut[1].entries = <<>> => sectionOut[1].empty

\* C23: the excerpts included are the first ones of the groups' excerpts
\* taken in order, group after group; only the last one included may be
\* truncated, and only when at least 500 characters of the budget were
\* left; after an excerpt left out for lack of budget no excerpt follows.
C23_PrefixOfExcerpts ==
    sectionOut # <<>> =>
        LET entries == sectionOut[1].entries
            refs == sectionIn.references
            Before(g, e) ==
                {<<h, f>> \in (1..Len(refs)) \X (1..2) :
                    /\ f <= Len(refs[h].excerpts)
                    /\ h < g \/ (h = g /\ f < e)}
        IN  /\ \A k \in 1..Len(entries) :
                   Cardinality(Before(entries[k].group, entries[k].pos)) = k - 1
            /\ \A k \in 1..(Len(entries) - 1) : ~entries[k].truncated
            /\ \A k \in 1..Len(entries) :
                   entries[k].truncated => entries[k].chars - 6 >= 500

(***************************************************************************)
(* Further properties of the requests (Spec)                               *)
(***************************************************************************)
\* C22: a request for a missing file or for a file of an unsupported
\* format is rejected at once: it ends in ERROR from the start, with no
\* cache lookup, no extraction, no cache write and no judge call, and the
\* cache store and the reference store are as they were.
C22_RejectedAtOnce ==
    [][/\ (pc = "IDLE" /\ pc' # "IDLE"
            /\ Suffix(req'.file.name) \notin {".docx", ".doc"}) =>
              (pc' = "ERROR" /\ error' \in {"config", "missing", "format"})
       /\ (pc' = "ERROR" /\ error' \in {"missing", "format"}) =>
              /\ pc \in {"IDLE", "ERROR"}
              /\ store' = store /\ dirExists' = dirExists
              /\ refCache' = refCache
              /\ extracted' = extracted
              /\ extraction' = <<>> /\ ~cached'
              /\ prompt' = <<>> /\ judge' = NoJudge /\ parsed' = <<>>
              /\ result' = <<>>]_vars

\* A request for a file of an unsupported format was rejected while both
\* stores held entries.
C22_RejectedWithStores ==
    /\ pc = "ERROR"
    /\ error = "format"
    /\ store # << >>
    /\ refCache # <<>>

\* C27: when detail is requested the result carries EvaluationMetadata
\* whose cached flag tells whether the payload came from a cache hit; when
\* it is not requested the result carries no metadata.
C27_MetadataCachedFlag ==
    (pc = "DONE" /\ result # <<>>) =>
        IF req.include_metadata
        THEN /\ result[1].metadata # <<>>
             /\ result[1].metadata[1].cached = cached
        ELSE result[1].metadata = <<>>

\* C30: evaluate on a payload without document text returns the score 0.0
\* with the one recommendation that the document is empty or invalid; the
\* judge is not called and the references are not loaded.
C30_EmptyDocument ==
    [][(/\ pc = "PROMPT_BUILDING"
        /\ TipoSupported(req.tipo)
        /\ extraction[1].markdown = <<>>) =>
            /\ pc' = "DONE"
            /\ result'[1].score = 0
            /\ result'[1].recommendations =
                   <<<<"Documento vazio ou invalido. Nao foi possivel extrair conteudo.">>>>
            /\ result'[1].metadata = <<>>
            /\ prompt' = <<>> /\ judge' = NoJudge /\ parsed' = <<>>
            /\ refCache' = refCache]_vars

\* An empty document was answered before any reference was ever loaded.
C30_AnsweredWithoutReferences ==
    /\ pc = "DONE"
    /\ extraction # <<>>
    /\ extraction[1].markdown = <<>>
    /\ result[1].score = 0
    /\ refCache = <<>>
    /\ judge = NoJudge

=========================================================================
